---- MODULE Spec2Model ----
(***************************************************************************)
(* Model of the authentication service (auth-serrvice): the user           *)
(* directory, the JWT token codec as the service uses it, the Auth Core    *)
(* (login / refresh / logout), the Session Authenticator                   *)
(* (get_current_user), the user service (register / update / delete) and  *)
(* the routes under /users.  Spec is the sequential service, UsersSpec the *)
(* routes behind a token, RaceSpec concurrent register and update calls,   *)
(* PasswordSpec and RegistrationSpec the validation functions on their     *)
(* inputs, OutageSpec the service with a database that may stop            *)
(* answering, HttpSpec requests on their way through the csrf_protect      *)
(* middleware, LifecycleSpec the user service and Login called directly,   *)
(* EditSpec concurrent update and delete calls, SessionSpec password       *)
(* changes while tokens age.                                               *)
(*                                                                         *)
(* Time is counted in integer ticks: python-jose stores `exp` as integer   *)
(* seconds (timegm(utctimetuple())) and compares it with integer seconds,  *)
(* so one tick stands for one unit of that integer clock.  The two TTLs    *)
(* are configuration values (settings.py) and are scaled to a few ticks.   *)
(***************************************************************************)
EXTENDS Integers, Sequences, FiniteSets, TLC

\* ---------------------------------------------------------------- bounds
MaxTime == 3
MaxMint == 2
MaxPwLen == 21

\* ------------------------------------------------ configuration constants
ACCESS_TOKEN_EXPIRE_MINUTES == 1
REFRESH_TOKEN_EXPIRE_DAYS == 2

\* UTC offsets (in ticks) the server's local clock may have.
TzOffsets == {-2, 0, 1}

\* ----------------------------------------------------------- input sets
Usernames == {"alice", "bob"}
Emails == {"a@x.io", "b@x.io"}
Salts == {1, 2}

LowerChars == {"a","b","c","d","e","f","g","h","i","j","k","l","m",
               "n","o","p","q","r","s","t","u","v","w","x","y","z"}
UpperChars == {"A","B","C","D","E","F","G","H","I","J","K","L","M",
               "N","O","P","Q","R","S","T","U","V","W","X","Y","Z"}
DigitChars == {"0","1","2","3","4","5","6","7","8","9"}
SpecialChars == {"@","$","!","%","*","?","&","#"}

PwSecure == <<"S","e","c","u","r","e","1","!","x">>
PwOther == <<"N","e","w","P","a","s","s","2","#">>
PwWrong == <<"w","r","o","n","g">>
LoginPasswords == {PwSecure, PwOther}

\* date.today() and the dates of birth a registrant may send: <<y, m, d>>.
Today == <<2026, 11, 2>>
DobAdult == <<2000, 1, 1>>
DobMinor == <<2008, 11, 3>>

\* Registration requests: acceptable ones, one reusing an email, one with
\* a password against the policy, one for a minor.
Registrations ==
    {<<"alice", "a@x.io", PwSecure, DobAdult>>,
     <<"bob", "b@x.io", PwSecure, DobAdult>>,
     <<"bob", "a@x.io", PwSecure, DobAdult>>,
     <<"alice", "a@x.io", PwWrong, DobAdult>>,
     <<"alice", "a@x.io", PwSecure, DobMinor>>}

NoneVal == [kind |-> "none"]

VARIABLES
    users,      \* the users table: username -> row
    now,        \* the UTC clock (datetime.utcnow(), integer ticks)
    tzOffset,   \* UTC offset of the server's local time zone
    minted,     \* history: every token create_tokens has returned
    mints,      \* number of create_tokens calls so far (uuid4 source)
    last,       \* the request handled last and its response
    calls,      \* service calls in flight, each between two of its awaits
    store_up    \* whether the database answers statements

vars == <<users, now, tzOffset, minted, mints, last, calls, store_up>>

\* ------------------------------------------------------- password hasher
\* bcrypt.hashpw(password, salt): the digest embeds the salt.
hash_password(password, salt) == [salt |-> salt, digest |-> <<salt, password>>]

\* verify_password answering True whatever the password.
verify_password_any(password, hashed_password) == TRUE

\* bcrypt.checkpw: re-hash with the salt stored in the digest and compare.
verify_password(password, hashed_password) ==
    hash_password(password, hashed_password.salt) = hashed_password

\* ------------------------------------------------------------ repository
Str(s) == [kind |-> "str", v |-> s]

to_entity(username) ==
    [kind |-> "user", username |-> username, email |-> users[username].email,
     password_hash |-> users[username].password_hashed,
     date_of_birth |-> users[username].date_of_birth]

\* session.execute against a database that does not answer raises.
StoreError == [kind |-> "raise", exc |-> "OperationalError"]

\* select(UserModel).where(UserModel.username == username): a None
\* parameter compiles to IS NULL and matches no row; a parameter that is
\* not a string (a User entity) is rejected by the database driver.
get_by_username(username) ==
    IF ~store_up THEN StoreError
    ELSE CASE username.kind = "none" -> NoneVal
           [] username.kind = "str" ->
                 IF username.v \in DOMAIN users THEN to_entity(username.v) ELSE NoneVal
           [] OTHER -> [kind |-> "raise", exc |-> "DBAPIError"]

\* scalar_one_or_none(): None for no row, the row for one, raises for more.
get_by_email(email) ==
    LET hits == {u \in DOMAIN users : users[u].email = email}
    IN  IF ~store_up THEN StoreError
        ELSE CASE hits = {} -> NoneVal
               [] Cardinality(hits) = 1 -> to_entity(CHOOSE u \in hits : TRUE)
               [] OTHER -> [kind |-> "raise", exc |-> "MultipleResultsFound"]

\* ------------------------------------------------------------ token codec
NoToken == [kind |-> "none"]
Garbage == [kind |-> "garbage"]

Jwt(sub, type, exp, jti, sig) ==
    [kind |-> "jwt", sub |-> sub, type |-> type, exp |-> exp, jti |-> jti, sig |-> sig]

\* create_tokens with no jti claim in either payload.
create_tokens_without_jti(sub) ==
    [access_token  |-> Jwt(sub, "access", now + ACCESS_TOKEN_EXPIRE_MINUTES, 0, "good"),
     refresh_token |-> Jwt(sub, "refresh", now + REFRESH_TOKEN_EXPIRE_DAYS, 0, "good")]

\* create_tokens: the n-th call draws two fresh uuid4 values.
create_tokens(sub) ==
    [access_token  |-> Jwt(sub, "access", now + ACCESS_TOKEN_EXPIRE_MINUTES,
                           2 * mints + 1, "good"),
     refresh_token |-> Jwt(sub, "refresh", now + REFRESH_TOKEN_EXPIRE_DAYS,
                           2 * mints + 2, "good")]

\* jose.jwt.decode(token, SECRET_KEY, algorithms=[ALGORITHM]): a string that
\* is not a JWT or whose signature does not verify raises JWTError; the exp
\* claim raises ExpiredSignatureError when exp < now.
jwt_decode(token) ==
    CASE token.kind # "jwt" -> [ok |-> FALSE, exc |-> "JWTError"]
      [] token.kind = "jwt" /\ token.sig # "good" -> [ok |-> FALSE, exc |-> "JWTError"]
      [] token.kind = "jwt" /\ token.sig = "good" /\ token.exp < now ->
            [ok |-> FALSE, exc |-> "ExpiredSignatureError"]
      [] OTHER -> [ok |-> TRUE, exc |-> "none"]

\* Tokens a client can present: everything minted so far, re-signed copies
\* made without the secret, and a string that is no JWT at all.
Forged == {Jwt("alice", ty, MaxTime + REFRESH_TOKEN_EXPIRE_DAYS, 0, "bad") :
              ty \in {"access", "refresh"}}
Presentable == minted \cup Forged \cup {Garbage}

\* -------------------------------------------------------------- responses
NoBody == [kind |-> "none"]

\* A request as get_current_user reads it: the access_token cookie and the
\* Authorization header, each of which may be missing.
NoHeader == [kind |-> "none"]
Header(scheme, cred) == [kind |-> "header", scheme |-> scheme, cred |-> cred]
Request(cookie, header) == [access_token |-> cookie, Authorization |-> header]
AuthCookies == {"access_token", "refresh_token", "csrf_token"}

\* What the model keeps of a handled request: the operation, the token it
\* was given, and the response (status, detail, body, cookies set and
\* deleted); identity is what get_current_user yielded; cause is the reason
\* a login had to fail, read off the directory and not shown to the caller;
\* reads is the number of directory reads the Auth Core made for it; request
\* is the cookie and the Authorization header an authenticated route saw;
\* args are the username, email, password and date of birth of a
\* registration.
Response(op, tok, status, detail, body, identity, set_cookies, del_cookies) ==
    [op |-> op, tok |-> tok, status |-> status, detail |-> detail, body |-> body,
     identity |-> identity, set_cookies |-> set_cookies, del_cookies |-> del_cookies,
     cause |-> "n/a", reads |-> 0, request |-> Request(NoToken, NoHeader),
     args |-> <<>>]

TokenSchema(tokens) ==
    [kind |-> "tokens", access_token |-> tokens.access_token,
     refresh_token |-> tokens.refresh_token, token_type |-> "bearer"]

\* UserInfoSchema also declaring the computed age.
UserInfoSchema_with_age(user) ==
    [kind |-> "user_info", username |-> user.username, email |-> user.email,
     date_of_birth |-> user.date_of_birth, age |-> user.date_of_birth[1]]

\* UserInfoSchema(username=..., email=..., date_of_birth=...): fields the
\* schema does not declare are ignored.
UserInfoSchema(user) ==
    [kind |-> "user_info", username |-> user.username, email |-> user.email,
     date_of_birth |-> user.date_of_birth]

\* ------------------------------------------------------------- Auth Core
\* AuthDomainService.is_token_expired: datetime.utcnow() > expiration_time.
is_token_expired(expiration_time) == now > expiration_time

\* datetime.fromtimestamp(exp): the naive LOCAL time of the instant exp.
fromtimestamp(exp) == exp + tzOffset

\* authenticate_user with the password check left out.
authenticate_user_no_verify(username, password) ==
    LET user == get_by_username(Str(username))
    IN  IF user.kind = "raise" THEN NoneVal
        ELSE IF user.kind = "none" THEN NoneVal
        ELSE TokenSchema(create_tokens(user.username))

\* AuthApplicationService.authenticate_user: TokenSchema or None; every
\* exception inside is swallowed into None.
authenticate_user(username, password) ==
    LET user == get_by_username(Str(username))
    IN  IF user.kind = "raise" THEN NoneVal
        ELSE IF user.kind = "none" THEN NoneVal
        ELSE IF ~verify_password(password, user.password_hash) THEN NoneVal
        ELSE TokenSchema(create_tokens(user.username))

\* authenticate_user with the user read again after the password check.
authenticate_user_reads_twice(username, password) ==
    LET user == get_by_username(Str(username))
    IN  IF user.kind = "user" /\ verify_password(password, user.password_hash)
        THEN 2 ELSE 1

\* The get_by_username calls one authenticate_user makes: the one on its
\* first line, whatever comes of it.
authenticate_user_reads(username, password) == 1

\* The get_by_username calls one refresh_token makes: one, reached only by
\* a token that decoded, is a refresh token with a subject and has not
\* expired.
refresh_token_reads(refresh_token_arg) ==
    IF ~jwt_decode(refresh_token_arg).ok THEN 0
    ELSE IF refresh_token_arg.type # "refresh" \/ refresh_token_arg.sub = "" THEN 0
    ELSE IF is_token_expired(fromtimestamp(refresh_token_arg.exp)) THEN 0
    ELSE 1

ValueError(msg) == [ok |-> FALSE, detail |-> msg, tokens |-> NoBody]

\* refresh_token with the check of the type claim left out.
refresh_token_any_type(refresh_token_arg) ==
    LET payload == jwt_decode(refresh_token_arg)
    IN  IF ~payload.ok THEN ValueError(payload.exc)
        ELSE IF is_token_expired(fromtimestamp(refresh_token_arg.exp))
             THEN ValueError("expired refresh token")
        ELSE LET user == get_by_username(Str(refresh_token_arg.sub))
             IN  IF user.kind = "raise" THEN ValueError(user.exc)
                 ELSE IF user.kind = "none" THEN ValueError("user not found")
                 ELSE [ok |-> TRUE, detail |-> "",
                       tokens |-> TokenSchema(create_tokens(refresh_token_arg.sub))]

\* refresh_token with the directory lookup of the subject left out.
refresh_token_no_lookup(refresh_token_arg) ==
    LET payload == jwt_decode(refresh_token_arg)
    IN  IF ~payload.ok THEN ValueError(payload.exc)
        ELSE IF refresh_token_arg.type # "refresh" \/ refresh_token_arg.sub = ""
             THEN ValueError("invalid refresh token")
        ELSE IF is_token_expired(fromtimestamp(refresh_token_arg.exp))
             THEN ValueError("expired refresh token")
        ELSE [ok |-> TRUE, detail |-> "",
              tokens |-> TokenSchema(create_tokens(refresh_token_arg.sub))]

\* AuthApplicationService.refresh_token: every failure leaves as a
\* ValueError whose text wraps the inner message.
refresh_token(refresh_token_arg) ==
    LET payload == jwt_decode(refresh_token_arg)
    IN  IF ~payload.ok THEN ValueError(payload.exc)
        ELSE IF refresh_token_arg.type # "refresh" \/ refresh_token_arg.sub = ""
             THEN ValueError("invalid refresh token")
        ELSE IF is_token_expired(fromtimestamp(refresh_token_arg.exp))
             THEN ValueError("expired refresh token")
        ELSE LET user == get_by_username(Str(refresh_token_arg.sub))
             IN  IF user.kind = "raise" THEN ValueError(user.exc)
                 ELSE IF user.kind = "none" THEN ValueError("user not found")
                 ELSE [ok |-> TRUE, detail |-> "",
                       tokens |-> TokenSchema(create_tokens(refresh_token_arg.sub))]

\* logout that decodes the token it is given and fails when it cannot.
logout_decoding(refresh_token_arg, response) ==
    [raised |-> ~jwt_decode(refresh_token_arg).ok, message |-> "logged out",
     del_cookies |-> IF response THEN AuthCookies ELSE {}]

\* AuthApplicationService.logout(refresh_token, response): the token is
\* not acted on; cookies are deleted only on a response object passed in.
logout(refresh_token_arg, response) ==
    [raised |-> FALSE, message |-> "logged out",
     del_cookies |-> IF response THEN AuthCookies ELSE {}]

\* ------------------------------------------------- Session Authenticator
\* get_current_user taking the Bearer credential before the cookie.
extract_token_header_first(request) ==
    IF request.Authorization.kind # "none" /\ request.Authorization.scheme = "Bearer"
    THEN request.Authorization.cred
    ELSE request.access_token

\* The token get_current_user ends up decoding: the cookie, else the
\* credential of a "Bearer " Authorization header.
extract_token(request) ==
    IF request.access_token.kind # "none" THEN request.access_token
    ELSE IF request.Authorization.kind # "none" /\ request.Authorization.scheme = "Bearer"
         THEN request.Authorization.cred
    ELSE NoToken

get_current_user(request) ==
    LET token == extract_token(request)
    IN  IF token.kind = "none" THEN NoneVal
        ELSE IF ~jwt_decode(token).ok THEN NoneVal
        ELSE IF token.sub = "" \/ token.type # "access" THEN NoneVal
        ELSE get_by_username(Str(token.sub))

\* ---------------------------------------------------------- user entity
\* len() of the strings the model sends as usernames.
StrLen(s) == CASE s = "alice" -> 5 [] s = "bob" -> 3 [] s = "al" -> 2 [] OTHER -> 0

\* '@' in email, for the strings the model sends as emails.
HasAt(email) == email \in Emails

\* Tuple comparison (a.month, a.day) < (b.month, b.day) and date < date.
PairLess(a1, a2, b1, b2) == a1 < b1 \/ (a1 = b1 /\ a2 < b2)
DateLess(a, b) == a[1] < b[1] \/ (a[1] = b[1] /\ PairLess(a[2], a[3], b[2], b[3]))

\* The age as the difference of the years alone.
age_by_year_only(date_of_birth) == Today[1] - date_of_birth[1]

\* today.year - dob.year - ((today.month, today.day) < (dob.month, dob.day))
age(date_of_birth) ==
    Today[1] - date_of_birth[1]
      - (IF PairLess(Today[2], Today[3], date_of_birth[2], date_of_birth[3]) THEN 1 ELSE 0)

any_char(password, chars) == \E i \in 1..Len(password) : password[i] \in chars

\* validate_password returning at the first rule that fails.
validate_password_first_only(password) ==
    IF Len(password) < 8 \/ Len(password) > 20 THEN <<"length">>
    ELSE IF ~any_char(password, LowerChars) THEN <<"lowercase">>
    ELSE IF ~any_char(password, UpperChars) THEN <<"uppercase">>
    ELSE IF ~any_char(password, DigitChars) THEN <<"digit">>
    ELSE IF ~any_char(password, SpecialChars) THEN <<"special">>
    ELSE <<>>

\* User.validate_password: every rule is checked, messages in source order.
validate_password(password) ==
    (IF Len(password) < 8 \/ Len(password) > 20 THEN <<"length">> ELSE <<>>)
    \o (IF ~any_char(password, LowerChars) THEN <<"lowercase">> ELSE <<>>)
    \o (IF ~any_char(password, UpperChars) THEN <<"uppercase">> ELSE <<>>)
    \o (IF ~any_char(password, DigitChars) THEN <<"digit">> ELSE <<>>)
    \o (IF ~any_char(password, SpecialChars) THEN <<"special">> ELSE <<>>)

\* User.validate on an entity with the given fields.
validate(username, email, password_hash_set, date_of_birth) ==
    (IF StrLen(username) < 3 THEN <<"username">> ELSE <<>>)
    \o (IF ~HasAt(email) THEN <<"email">> ELSE <<>>)
    \o (IF ~password_hash_set THEN <<"password_hash">> ELSE <<>>)
    \o (IF DateLess(Today, date_of_birth) THEN <<"future_dob">> ELSE <<>>)

\* validate_registration without the checks of the entity's fields.
validate_registration_without_validate(username, email, password, date_of_birth) ==
    (IF age(date_of_birth) < 18 THEN <<"age">> ELSE <<>>)
    \o validate_password(password)

\* UserDomainService.validate_registration
validate_registration(username, email, password, date_of_birth) ==
    (IF age(date_of_birth) < 18 THEN <<"age">> ELSE <<>>)
    \o validate(username, email, Len(password) > 0, date_of_birth)
    \o validate_password(password)

\* ----------------------------------------------------------- user service
\* register_user checking the policy rules before the two lookups.
register_user_policy_first(username, email, password, date_of_birth) ==
    LET existing_user == get_by_username(Str(username))
        existing_email == get_by_email(email)
        validation_errors == validate_registration(username, email, password, date_of_birth)
        Out(st, dt, body, create) == [status |-> st, detail |-> dt, body |-> body, create |-> create]
    IN  IF validation_errors # <<>>
          THEN Out(400, "validation", [kind |-> "errors", errors |-> validation_errors], FALSE)
        ELSE IF existing_user.kind = "user"
          THEN Out(409, "username exists", NoBody, FALSE)
        ELSE IF existing_email.kind = "user"
          THEN Out(409, "email exists", NoBody, FALSE)
        ELSE Out(201, "",
                 UserInfoSchema([username |-> username, email |-> email,
                                 date_of_birth |-> date_of_birth]), TRUE)

\* register_user with the check of the email left out.
register_user_no_email_check(username, email, password, date_of_birth) ==
    LET existing_user == get_by_username(Str(username))
        validation_errors == validate_registration(username, email, password, date_of_birth)
        Out(st, dt, body, create) == [status |-> st, detail |-> dt, body |-> body, create |-> create]
    IN  IF existing_user.kind = "user"
          THEN Out(409, "username exists", NoBody, FALSE)
        ELSE IF validation_errors # <<>>
          THEN Out(400, "validation", [kind |-> "errors", errors |-> validation_errors], FALSE)
        ELSE Out(201, "",
                 UserInfoSchema([username |-> username, email |-> email,
                                 date_of_birth |-> date_of_birth]), TRUE)

\* UserApplicationService.register_user: its outcome, and whether it goes
\* on to hash the password and create the row.
register_user(username, email, password, date_of_birth) ==
    LET existing_user == get_by_username(Str(username))
        existing_email == get_by_email(email)
        validation_errors == validate_registration(username, email, password, date_of_birth)
        Out(st, dt, body, create) == [status |-> st, detail |-> dt, body |-> body, create |-> create]
    IN  IF existing_user.kind = "user"
          THEN Out(409, "username exists", NoBody, FALSE)
        ELSE IF existing_email.kind = "raise"
          THEN Out(500, "internal", NoBody, FALSE)
        ELSE IF existing_email.kind = "user"
          THEN Out(409, "email exists", NoBody, FALSE)
        ELSE IF validation_errors # <<>>
          THEN Out(400, "validation", [kind |-> "errors", errors |-> validation_errors], FALSE)
        ELSE Out(201, "",
                 UserInfoSchema([username |-> username, email |-> email,
                                 date_of_birth |-> date_of_birth]), TRUE)

NewRow(email, password, date_of_birth, salt) ==
    [email |-> email, password_hashed |-> hash_password(password, salt),
     date_of_birth |-> date_of_birth]

\* A field a PUT /users/me body leaves out (None in UserUpdateSchema).
NoEmail == ""
NoPassword == <<>>
NoDate == <<>>

\* UserApplicationService.get_user_info: the dict of a found user.
get_user_info(username) ==
    LET user == get_by_username(username)
    IN  CASE user.kind = "raise" -> [status |-> 500, detail |-> "internal", body |-> NoBody]
          [] user.kind = "none" -> [status |-> 404, detail |-> "user not found", body |-> NoBody]
          [] OTHER -> [status |-> 200, detail |-> "",
                       body |-> [kind |-> "user_info", username |-> user.username,
                                 email |-> user.email, date_of_birth |-> user.date_of_birth,
                                 age |-> age(user.date_of_birth),
                                 is_adult |-> age(user.date_of_birth) >= 18]]

\* update_user handing repository.update an entity under the username of
\* another row, when there is one.
update_user_other_row(username, email, password, date_of_birth) ==
    LET user == get_by_username(username)
        existing_email == get_by_email(email)
        new_email == IF email # NoEmail THEN email ELSE user.email
        new_dob == IF date_of_birth # NoDate THEN date_of_birth ELSE user.date_of_birth
        Out(st, dt, body, write) ==
            [status |-> st, detail |-> dt, body |-> body, write |-> write,
             username |-> IF write
                          THEN CHOOSE u \in DOMAIN users :
                                  DOMAIN users = {user.username} \/ u # user.username
                          ELSE "",
             email |-> IF write THEN new_email ELSE NoEmail,
             date_of_birth |-> IF write THEN new_dob ELSE NoDate]
    IN  IF user.kind = "raise" THEN Out(500, "internal", NoBody, FALSE)
        ELSE IF user.kind = "none" THEN Out(404, "user not found", NoBody, FALSE)
        ELSE IF email # NoEmail /\ existing_email.kind = "raise"
          THEN Out(500, "internal", NoBody, FALSE)
        ELSE IF email # NoEmail /\ existing_email.kind = "user"
                /\ existing_email.username # username.v
          THEN Out(409, "email exists", NoBody, FALSE)
        ELSE IF password # NoPassword /\ validate_password(password) # <<>>
          THEN Out(400, "validation",
                   [kind |-> "errors", errors |-> validate_password(password)], FALSE)
        ELSE IF date_of_birth # NoDate
                /\ validate(user.username, new_email, TRUE, date_of_birth) # <<>>
          THEN Out(400, "validation",
                   [kind |-> "errors",
                    errors |-> validate(user.username, new_email, TRUE, date_of_birth)], FALSE)
        ELSE Out(200, "",
                 UserInfoSchema([username |-> user.username, email |-> new_email,
                                 date_of_birth |-> new_dob]), TRUE)

\* update_user saving the entity although its date of birth was rejected.
update_user_saving_rejected(username, email, password, date_of_birth) ==
    LET user == get_by_username(username)
        existing_email == get_by_email(email)
        new_email == IF email # NoEmail THEN email ELSE user.email
        new_dob == IF date_of_birth # NoDate THEN date_of_birth ELSE user.date_of_birth
        Out(st, dt, body, write) ==
            [status |-> st, detail |-> dt, body |-> body, write |-> write,
             username |-> IF write THEN user.username ELSE "",
             email |-> IF write THEN new_email ELSE NoEmail,
             date_of_birth |-> IF write THEN new_dob ELSE NoDate]
    IN  IF user.kind = "raise" THEN Out(500, "internal", NoBody, FALSE)
        ELSE IF user.kind = "none" THEN Out(404, "user not found", NoBody, FALSE)
        ELSE IF email # NoEmail /\ existing_email.kind = "raise"
          THEN Out(500, "internal", NoBody, FALSE)
        ELSE IF email # NoEmail /\ existing_email.kind = "user"
                /\ existing_email.username # username.v
          THEN Out(409, "email exists", NoBody, FALSE)
        ELSE IF password # NoPassword /\ validate_password(password) # <<>>
          THEN Out(400, "validation",
                   [kind |-> "errors", errors |-> validate_password(password)], FALSE)
        ELSE IF date_of_birth # NoDate
                /\ validate(user.username, new_email, TRUE, date_of_birth) # <<>>
          THEN Out(400, "validation",
                   [kind |-> "errors",
                    errors |-> validate(user.username, new_email, TRUE, date_of_birth)], TRUE)
        ELSE Out(200, "",
                 UserInfoSchema([username |-> user.username, email |-> new_email,
                                 date_of_birth |-> new_dob]), TRUE)

\* UserApplicationService.update_user: its outcome, and the entity it goes
\* on to hand to repository.update (the password still to be hashed).
update_user(username, email, password, date_of_birth) ==
    LET user == get_by_username(username)
        existing_email == get_by_email(email)
        new_email == IF email # NoEmail THEN email ELSE user.email
        new_dob == IF date_of_birth # NoDate THEN date_of_birth ELSE user.date_of_birth
        Out(st, dt, body, write) ==
            [status |-> st, detail |-> dt, body |-> body, write |-> write,
             username |-> IF write THEN user.username ELSE "",
             email |-> IF write THEN new_email ELSE NoEmail,
             date_of_birth |-> IF write THEN new_dob ELSE NoDate]
    IN  IF user.kind = "raise" THEN Out(500, "internal", NoBody, FALSE)
        ELSE IF user.kind = "none" THEN Out(404, "user not found", NoBody, FALSE)
        ELSE IF email # NoEmail /\ existing_email.kind = "raise"
          THEN Out(500, "internal", NoBody, FALSE)
        ELSE IF email # NoEmail /\ existing_email.kind = "user"
                /\ existing_email.username # username.v
          THEN Out(409, "email exists", NoBody, FALSE)
        ELSE IF password # NoPassword /\ validate_password(password) # <<>>
          THEN Out(400, "validation",
                   [kind |-> "errors", errors |-> validate_password(password)], FALSE)
        ELSE IF date_of_birth # NoDate
                /\ validate(user.username, new_email, TRUE, date_of_birth) # <<>>
          THEN Out(400, "validation",
                   [kind |-> "errors",
                    errors |-> validate(user.username, new_email, TRUE, date_of_birth)], FALSE)
        ELSE Out(200, "",
                 UserInfoSchema([username |-> user.username, email |-> new_email,
                                 date_of_birth |-> new_dob]), TRUE)

\* delete_user reporting success whether or not a row was found.
delete_user_always(username) == [status |-> 204, detail |-> "deleted", delete |-> TRUE]

\* UserApplicationService.delete_user: repository.delete selects the row by
\* the username it is given and deletes it when there is one.
delete_user(username) ==
    LET user_model == get_by_username(username)
    IN  CASE user_model.kind = "raise" -> [status |-> 500, detail |-> "internal", delete |-> FALSE]
          [] user_model.kind = "none" -> [status |-> 404, detail |-> "user not found", delete |-> FALSE]
          [] OTHER -> [status |-> 204, detail |-> "deleted", delete |-> TRUE]

\* UserRepository.delete: False when no row has the username.
delete(id_value) == id_value \in DOMAIN users

\* --------------------------------------------------------------- actions
\* No request is being answered.
Idle == Response("idle", NoToken, 0, "", NoBody, NoneVal, {}, {})

Init ==
    /\ users = << >>
    /\ now = 0
    /\ tzOffset \in TzOffsets
    /\ minted = {}
    /\ mints = 0
    /\ last = Idle
    /\ store_up = TRUE
    /\ calls = << >>

\* Why a login with these credentials has to fail, read off the directory.
Cause(username, password) ==
    IF username \notin DOMAIN users THEN "miss"
    ELSE IF users[username].password_hashed.digest[2] # password THEN "mismatch"
    ELSE "ok"

\* UserApplicationService.register_user, then the row is created.
Register(username, email, password, date_of_birth, salt) ==
    LET out == register_user(username, email, password, date_of_birth)
    IN  /\ last = Idle
        /\ users' = IF out.create
                    THEN [u \in DOMAIN users \cup {username} |->
                            IF u = username
                            THEN NewRow(email, password, date_of_birth, salt)
                            ELSE users[u]]
                    ELSE users
        /\ last' = [Response("register", NoToken, out.status, out.detail, out.body,
                             NoneVal, {}, {})
                       EXCEPT !.args = <<username, email, password, date_of_birth>>]
        /\ UNCHANGED <<now, tzOffset, minted, mints, calls, store_up>>

\* UserApplicationService.delete_user
DeleteUser(username) ==
    /\ last = Idle
    /\ users' = IF delete(username)
                THEN [u \in DOMAIN users \ {username} |-> users[u]]
                ELSE users
    /\ last' = IF delete(username)
               THEN Response("delete", NoToken, 204, "deleted", NoBody, NoneVal, {}, {})
               ELSE Response("delete", NoToken, 404, "user not found", NoBody, NoneVal, {}, {})
    /\ UNCHANGED <<now, tzOffset, minted, mints, calls, store_up>>

\* POST /auth/login
Login(username, password) ==
    LET tokens == authenticate_user(username, password)
        resp == IF tokens.kind = "none"
                THEN Response("login", NoToken, 401, "invalid credentials", NoBody,
                              NoneVal, {}, {})
                ELSE Response("login", NoToken, 200, "", tokens, NoneVal, {}, {})
        new == IF tokens.kind = "none" THEN {}
               ELSE {tokens.access_token, tokens.refresh_token}
    IN  /\ last = Idle
        /\ tokens.kind # "none" => mints < MaxMint
        /\ last' = [resp EXCEPT !.cause = Cause(username, password),
                                !.reads = authenticate_user_reads(username, password)]
        /\ minted' = minted \cup new
        /\ mints' = IF new = {} THEN mints ELSE mints + 1
        /\ UNCHANGED <<users, now, tzOffset, calls, store_up>>

\* POST /auth/refresh
Refresh(token) ==
    LET res == refresh_token(token)
        resp == IF res.ok
                THEN Response("refresh", token, 200, "", res.tokens, NoneVal, {}, {})
                ELSE Response("refresh", token, 401, res.detail, NoBody, NoneVal, {}, {})
        new == IF res.ok THEN {res.tokens.access_token, res.tokens.refresh_token} ELSE {}
    IN  /\ last = Idle
        /\ res.ok => mints < MaxMint
        /\ last' = [resp EXCEPT !.reads = refresh_token_reads(token)]
        /\ minted' = minted \cup new
        /\ mints' = IF res.ok THEN mints + 1 ELSE mints
        /\ UNCHANGED <<users, now, tzOffset, calls, store_up>>

\* POST /auth/logout: a body without the refresh_token string is turned
\* away by LogoutSchema (422) before the handler runs; the handler calls
\* logout(refresh_token) and passes no response object.
Logout(token) ==
    LET res == logout(token, FALSE)
    IN  /\ last = Idle
        /\ last' = IF token.kind = "none"
                   THEN Response("logout", token, 422, "validation", NoBody, NoneVal, {}, {})
                   ELSE Response("logout", token, IF res.raised THEN 500 ELSE 204, "",
                                 NoBody, NoneVal, {}, res.del_cookies)
        /\ UNCHANGED <<users, now, tzOffset, minted, mints, calls, store_up>>

\* GET /users/me: the dependency get_current_user hands the handler a User
\* entity or None, and the handler passes that value on as the username of
\* the directory lookup.
GetMe(request) ==
    LET current_username == get_current_user(request)
        user == get_by_username(current_username)
        Answer(st, dt, body) ==
            [Response("me", extract_token(request), st, dt, body, current_username, {}, {})
                EXCEPT !.request = request]
    IN  /\ last = Idle
        /\ last' = CASE user.kind = "raise" ->
                          Answer(500, "internal", NoBody)
                     [] user.kind = "none" ->
                          Answer(404, "user not found", NoBody)
                     [] OTHER ->
                          Answer(200, "", UserInfoSchema(user))
        /\ UNCHANGED <<users, now, tzOffset, minted, mints, calls, store_up>>

\* GET /users/{username}: the path parameter is compared with what the
\* dependency handed over; unless they are equal the lookup is made with
\* the dependency's value.  The dict of a found user goes through
\* UserInfoSchema(**user_info), which keeps the fields the schema declares.
GetUser(request, username) ==
    LET current_username == get_current_user(request)
        user_info == IF Str(username) # current_username
                     THEN get_user_info(current_username)
                     ELSE get_user_info(Str(username))
    IN  /\ last = Idle
        /\ last' = [Response("get_user", extract_token(request), user_info.status,
                             user_info.detail,
                             IF user_info.status = 200 THEN UserInfoSchema(user_info.body)
                             ELSE user_info.body,
                             current_username, {}, {})
                       EXCEPT !.request = request]
        /\ UNCHANGED <<users, now, tzOffset, minted, mints, calls, store_up>>

\* PUT /users/me with a body UserUpdateSchema accepts: update_user is called
\* with the dependency's value as the username.
PutMe(request, email, password, date_of_birth, salt) ==
    LET current_username == get_current_user(request)
        out == update_user(current_username, email, password, date_of_birth)
    IN  /\ last = Idle
        /\ users' = IF out.write
                    THEN [users EXCEPT ![out.username] =
                            [email |-> out.email,
                             password_hashed |->
                                 IF password # NoPassword
                                 THEN hash_password(password, salt)
                                 ELSE users[out.username].password_hashed,
                             date_of_birth |-> out.date_of_birth]]
                    ELSE users
        /\ last' = [Response("put_me", extract_token(request), out.status, out.detail,
                             out.body, current_username, {}, {})
                       EXCEPT !.request = request]
        /\ UNCHANGED <<now, tzOffset, minted, mints, calls, store_up>>

\* DELETE /users/me: delete_user is called with the dependency's value.
DeleteMe(request) ==
    LET current_username == get_current_user(request)
        out == delete_user(current_username)
    IN  /\ last = Idle
        /\ users' = IF out.delete
                    THEN [u \in DOMAIN users \ {current_username.username} |-> users[u]]
                    ELSE users
        /\ last' = [Response("delete_me", extract_token(request), out.status, out.detail,
                             NoBody, current_username, {}, {})
                       EXCEPT !.request = request]
        /\ UNCHANGED <<now, tzOffset, minted, mints, calls, store_up>>

\* The response is sent; the service waits for the next request.
Reply ==
    /\ last # Idle
    /\ last' = Idle
    /\ UNCHANGED <<users, now, tzOffset, minted, mints, calls, store_up>>

\* The clock advances between requests.
Tick ==
    /\ last = Idle
    /\ now < MaxTime
    /\ now' = now + 1
    /\ UNCHANGED <<users, tzOffset, minted, mints, last, calls, store_up>>

\* Requests a client can send: a token (or none) in the cookie, or a minted
\* token in an Authorization header under the Bearer or another scheme.
Requests ==
    {Request(c, NoHeader) : c \in Presentable \cup {NoToken}}
    \cup {Request(NoToken, Header("Bearer", t)) : t \in minted}
    \cup {Request(NoToken, Header("Basic", t)) : t \in {m \in minted : m.type = "access"}}

\* Requests that carry both a cookie (a minted token or a string that is no
\* token) and a minted access token in a Bearer header.
RequestsWithBoth ==
    {Request(c, Header("Bearer", t)) :
        c \in minted \cup {Garbage}, t \in {m \in minted : m.type = "access"}}

\* Requests that carry a minted token, a string that is no token, or
\* nothing in the cookie, and no header.
CookieRequests == {Request(c, NoHeader) : c \in minted \cup {Garbage, NoToken}}

\* The salts bcrypt may draw for an update: none is drawn unless the body
\* has a password.
UpdateSalts(password) == IF password = NoPassword THEN {1} ELSE Salts

\* Bodies of PUT /users/me: a new email, a new password, a new date of birth.
Updates == {<<"b@x.io", NoPassword, NoDate>>, <<NoEmail, PwOther, NoDate>>,
            <<NoEmail, NoPassword, DobAdult>>}

Next ==
    \/ \E r \in Registrations, s \in Salts : Register(r[1], r[2], r[3], r[4], s)
    \/ \E u \in Usernames : DeleteUser(u)
    \/ \E u \in Usernames, p \in LoginPasswords : Login(u, p)
    \/ \E t \in Presentable : Refresh(t)
    \/ \E t \in Presentable \cup {NoToken} : Logout(t)
    \/ \E r \in Requests : GetMe(r)
    \/ Reply
    \/ Tick

Spec == Init /\ [][Next]_vars

\* --------------------------------------------- the routes behind a token
\* The users router with login as the source of tokens.  None of these
\* operations reads the server's local time zone.
UsersInit ==
    /\ users = << >>
    /\ now = 0
    /\ tzOffset = 0
    /\ minted = {}
    /\ mints = 0
    /\ last = Idle
    /\ store_up = TRUE
    /\ calls = << >>

UsersNext ==
    \/ \E r \in Registrations, s \in Salts : Register(r[1], r[2], r[3], r[4], s)
    \/ \E u \in Usernames : DeleteUser(u)
    \/ \E u \in Usernames, p \in LoginPasswords : Login(u, p)
    \/ \E r \in Requests \cup RequestsWithBoth : GetMe(r)
    \/ \E r \in CookieRequests, u \in Usernames : GetUser(r, u)
    \/ \E r \in CookieRequests, u \in Updates :
          \E s \in UpdateSalts(u[2]) : PutMe(r, u[1], u[2], u[3], s)
    \/ \E r \in CookieRequests : DeleteMe(r)
    \/ Reply
    \/ Tick

UsersSpec == UsersInit /\ [][UsersNext]_vars

\* ------------------------------------------------ concurrent user calls
\* Requests are served concurrently, each in its own database session
\* (PostgreSQL, read committed): a call runs from one await to the next and
\* another call may run in between.  Every statement sees the rows
\* committed so far.
NumCalls == 2
Procs == 1..NumCalls

NoCall == [op |-> "none", pc |-> "idle"]

\* A call at the given await, and a call that has ended with a status at
\* the statement named by at.
RegisterCall(pc, username, email) ==
    [op |-> "register", pc |-> pc, username |-> username, email |-> email]
UpdateCall(pc, username, email) ==
    [op |-> "update", pc |-> pc, username |-> username, email |-> email]
Ended(call, status, at) ==
    [op |-> call.op, pc |-> "done", username |-> call.username, email |-> call.email,
     status |-> status, at |-> at]

RaceInit ==
    /\ users = << >>
    /\ now = 0
    /\ tzOffset = 0
    /\ minted = {}
    /\ mints = 0
    /\ last = Idle
    /\ store_up = TRUE
    /\ calls = [p \in Procs |-> NoCall]

\* A request arrives: POST /users/register, or update_user for a new email.
StartRegister(p, username, email) ==
    /\ calls[p] = NoCall
    /\ calls' = [calls EXCEPT ![p] = RegisterCall("get_by_username", username, email)]
    /\ UNCHANGED <<users, now, tzOffset, minted, mints, last, store_up>>

StartUpdate(p, username, email) ==
    /\ calls[p] = NoCall
    /\ calls' = [calls EXCEPT ![p] = UpdateCall("get_by_username", username, email)]
    /\ UNCHANGED <<users, now, tzOffset, minted, mints, last, store_up>>

\* register_user, first await: the username must not be in the directory.
RegisterGetByUsername(p) ==
    LET call == calls[p]
        existing_user == get_by_username(Str(call.username))
    IN  /\ call.op = "register" /\ call.pc = "get_by_username"
        /\ calls' = [calls EXCEPT ![p] =
                        IF existing_user.kind = "user"
                        THEN Ended(call, 409, "get_by_username")
                        ELSE RegisterCall("get_by_email", call.username, call.email)]
        /\ UNCHANGED <<users, now, tzOffset, minted, mints, last, store_up>>

\* register_user, second await: the email must not be in the directory;
\* then the business rules are checked on the input.
RegisterGetByEmail(p) ==
    LET call == calls[p]
        existing_email == get_by_email(call.email)
        validation_errors ==
            validate_registration(call.username, call.email, PwSecure, DobAdult)
    IN  /\ call.op = "register" /\ call.pc = "get_by_email"
        /\ calls' = [calls EXCEPT ![p] =
                        IF existing_email.kind = "raise"
                          THEN Ended(call, 500, "get_by_email")
                        ELSE IF existing_email.kind = "user"
                          THEN Ended(call, 409, "get_by_email")
                        ELSE IF validation_errors # <<>>
                          THEN Ended(call, 400, "validate_registration")
                        ELSE RegisterCall("create", call.username, call.email)]
        /\ UNCHANGED <<users, now, tzOffset, minted, mints, last, store_up>>

\* register_user, last await: UserRepository.create inserts the row and
\* commits.  username is the primary key and the only unique column: an
\* insert of a username that is there by now fails with IntegrityError,
\* which no handler of the service turns into an HTTPException, so the
\* application's general exception handler answers 500.
RegisterCreate(p) ==
    LET call == calls[p]
    IN  /\ call.op = "register" /\ call.pc = "create"
        /\ users' = IF call.username \in DOMAIN users
                    THEN users
                    ELSE [u \in DOMAIN users \cup {call.username} |->
                            IF u = call.username
                            THEN NewRow(call.email, PwSecure, DobAdult, 1)
                            ELSE users[u]]
        /\ calls' = [calls EXCEPT ![p] =
                        IF call.username \in DOMAIN users
                        THEN Ended(call, 500, "create")
                        ELSE Ended(call, 201, "create")]
        /\ UNCHANGED <<now, tzOffset, minted, mints, last, store_up>>

\* update_user, first await: the user must be in the directory.
UpdateGetByUsername(p) ==
    LET call == calls[p]
        user == get_by_username(Str(call.username))
    IN  /\ call.op = "update" /\ call.pc = "get_by_username"
        /\ calls' = [calls EXCEPT ![p] =
                        IF user.kind = "none"
                        THEN Ended(call, 404, "get_by_username")
                        ELSE UpdateCall("get_by_email", call.username, call.email)]
        /\ UNCHANGED <<users, now, tzOffset, minted, mints, last, store_up>>

\* update_user, second await: the email must not be another user's.
UpdateGetByEmail(p) ==
    LET call == calls[p]
        existing_email == get_by_email(call.email)
    IN  /\ call.op = "update" /\ call.pc = "get_by_email"
        /\ calls' = [calls EXCEPT ![p] =
                        IF existing_email.kind = "raise"
                          THEN Ended(call, 500, "get_by_email")
                        ELSE IF existing_email.kind = "user"
                                /\ existing_email.username # call.username
                          THEN Ended(call, 409, "get_by_email")
                        ELSE UpdateCall("update", call.username, call.email)]
        /\ UNCHANGED <<users, now, tzOffset, minted, mints, last, store_up>>

\* update_user, last await: UserRepository.update selects the row again,
\* raises ValueError when it is gone, and commits the entity's email.
UpdateWrite(p) ==
    LET call == calls[p]
    IN  /\ call.op = "update" /\ call.pc = "update"
        /\ users' = IF call.username \in DOMAIN users
                    THEN [users EXCEPT ![call.username].email = call.email]
                    ELSE users
        /\ calls' = [calls EXCEPT ![p] =
                        IF call.username \in DOMAIN users
                        THEN Ended(call, 200, "update")
                        ELSE Ended(call, 500, "update")]
        /\ UNCHANGED <<now, tzOffset, minted, mints, last, store_up>>

\* The response of an ended call is sent.
Return(p) ==
    /\ calls[p].pc = "done"
    /\ calls' = [calls EXCEPT ![p] = NoCall]
    /\ UNCHANGED <<users, now, tzOffset, minted, mints, last, store_up>>

RaceNext ==
    \/ \E p \in Procs, u \in Usernames, e \in Emails : StartRegister(p, u, e)
    \/ \E p \in Procs, u \in Usernames, e \in Emails : StartUpdate(p, u, e)
    \/ \E p \in Procs : RegisterGetByUsername(p)
    \/ \E p \in Procs : RegisterGetByEmail(p)
    \/ \E p \in Procs : RegisterCreate(p)
    \/ \E p \in Procs : UpdateGetByUsername(p)
    \/ \E p \in Procs : UpdateGetByEmail(p)
    \/ \E p \in Procs : UpdateWrite(p)
    \/ \E p \in Procs : Return(p)

RaceSpec == RaceInit /\ [][RaceNext]_vars

\* ---------------------------------------------- password policy calls
\* Passwords put together from one character of each class that is asked
\* for and a filler that belongs to no class, at the lengths on both sides
\* of the two limits.
PwLengths == {7, 8, 20, MaxPwLen}
Pad(core, n) == core \o [i \in 1..(n - Len(core)) |-> "-"]
BuildPassword(lower, upper, digit, special, n) ==
    Pad((IF lower THEN <<"a">> ELSE <<>>) \o (IF upper THEN <<"B">> ELSE <<>>)
        \o (IF digit THEN <<"3">> ELSE <<>>) \o (IF special THEN <<"#">> ELSE <<>>), n)

PasswordInit ==
    /\ users = << >>
    /\ now = 0
    /\ tzOffset = 0
    /\ minted = {}
    /\ mints = 0
    /\ last = Idle
    /\ store_up = TRUE
    /\ \E lower \in BOOLEAN, upper \in BOOLEAN, digit \in BOOLEAN, special \in BOOLEAN,
          n \in PwLengths :
          calls = <<[op |-> "validate_password", pc |-> "called",
                     password |-> BuildPassword(lower, upper, digit, special, n),
                     lower |-> lower, upper |-> upper, digit |-> digit,
                     special |-> special, n |-> n]>>

\* errors = user.validate_password(password)
ValidatePassword ==
    /\ calls[1].pc = "called"
    /\ calls' = <<[op |-> "validate_password", pc |-> "done",
                   password |-> calls[1].password,
                   lower |-> calls[1].lower, upper |-> calls[1].upper,
                   digit |-> calls[1].digit, special |-> calls[1].special,
                   n |-> calls[1].n,
                   errors |-> validate_password(calls[1].password)]>>
    /\ UNCHANGED <<users, now, tzOffset, minted, mints, last, store_up>>

PasswordNext == ValidatePassword

PasswordSpec == PasswordInit /\ [][PasswordNext]_vars

\* ------------------------------------------------- registration calls
\* Registration inputs on both sides of every rule: a username of five
\* characters, of two and of none; an email with and without '@'; the
\* acceptable password, one too short, one that lacks only the special
\* character, the empty one; dates of birth around the eighteenth birthday,
\* in either month order, today and tomorrow.
RegUsernames == {"alice", "al", ""}
RegEmails == {"a@x.io", "nomail", ""}
RegPasswords == {PwSecure, PwWrong, BuildPassword(TRUE, TRUE, TRUE, FALSE, 8), <<>>}
DobSeventeen == <<2009, 11, 2>>
DobEighteenToday == <<2008, 11, 2>>
DobLaterMonth == <<2008, 12, 1>>
DobEarlierMonth == <<2008, 10, 30>>
DobTomorrow == <<2026, 11, 3>>
RegDobs == {DobAdult, DobSeventeen, DobEighteenToday, DobMinor, DobLaterMonth,
            DobEarlierMonth, DobTomorrow, Today}

\* The directory is empty or holds alice.
RegistrationInit ==
    /\ users \in {<< >>, [u \in {"alice"} |-> NewRow("a@x.io", PwSecure, DobAdult, 1)]}
    /\ now = 0
    /\ tzOffset = 0
    /\ minted = {}
    /\ mints = 0
    /\ last = Idle
    /\ store_up = TRUE
    /\ \E username \in RegUsernames, email \in RegEmails, password \in RegPasswords,
          date_of_birth \in RegDobs :
          calls = <<[op |-> "register_user", pc |-> "called", username |-> username,
                     email |-> email, password |-> password,
                     date_of_birth |-> date_of_birth]>>

\* A call with the fields of c and the given further fields.
RegistrationCall(c, pc, age_value, errors, status, body) ==
    [op |-> "register_user", pc |-> pc, username |-> c.username, email |-> c.email,
     password |-> c.password, date_of_birth |-> c.date_of_birth,
     age |-> age_value, errors |-> errors, status |-> status, body |-> body]

\* validation_errors = domain_service.validate_registration(...), on its own
ValidateRegistration ==
    LET c == calls[1]
    IN  /\ c.pc = "called"
        /\ calls' = <<RegistrationCall(c, "validated", age(c.date_of_birth),
                         validate_registration(c.username, c.email, c.password,
                                               c.date_of_birth), 0, NoBody)>>
        /\ UNCHANGED <<users, now, tzOffset, minted, mints, last, store_up>>

\* register_user on the same input, and the row it creates.
RegisterUser ==
    LET c == calls[1]
        out == register_user(c.username, c.email, c.password, c.date_of_birth)
    IN  /\ c.pc = "validated"
        /\ users' = IF out.create
                    THEN [u \in DOMAIN users \cup {c.username} |->
                            IF u = c.username
                            THEN NewRow(c.email, c.password, c.date_of_birth, 1)
                            ELSE users[u]]
                    ELSE users
        /\ calls' = <<RegistrationCall(c, "done", c.age, c.errors, out.status, out.body)
                        @@ [detail |-> out.detail]>>
        /\ UNCHANGED <<now, tzOffset, minted, mints, last, store_up>>

RegistrationNext ==
    \/ ValidateRegistration
    \/ RegisterUser

RegistrationSpec == RegistrationInit /\ [][RegistrationNext]_vars

\* -------------------------------------------------- the store failing
\* The Auth Core in front of a database that can stop answering and come
\* back between requests.
OutageInit ==
    /\ users = << >>
    /\ now = 0
    /\ tzOffset = 0
    /\ minted = {}
    /\ mints = 0
    /\ last = Idle
    /\ calls = << >>
    /\ store_up = TRUE

StoreFails ==
    /\ last = Idle
    /\ store_up
    /\ store_up' = FALSE
    /\ UNCHANGED <<users, now, tzOffset, minted, mints, last, calls>>

StoreRecovers ==
    /\ last = Idle
    /\ ~store_up
    /\ store_up' = TRUE
    /\ UNCHANGED <<users, now, tzOffset, minted, mints, last, calls>>

OutageNext ==
    \/ \E r \in Registrations, s \in Salts : Register(r[1], r[2], r[3], r[4], s)
    \/ \E u \in Usernames, p \in LoginPasswords : Login(u, p)
    \/ \E t \in Presentable : Refresh(t)
    \/ Reply
    \/ Tick
    \/ StoreFails
    \/ StoreRecovers

OutageSpec == OutageInit /\ [][OutageNext]_vars

\* ------------------------------------------------------ the HTTP surface
\* A request on its way through the csrf_protect middleware to a route.
\* It is kept in calls, alone, from its arrival to the reply.
CsrfTokens == {"c1", "c2"}
NoCsrf == ""
Referers == {"", "http://localhost:8000/api/docs", "http://localhost:3000/"}
Routes == {[method |-> "POST", path |-> "/auth/login"],
           [method |-> "POST", path |-> "/users/register"],
           [method |-> "PUT", path |-> "/users/me"],
           [method |-> "DELETE", path |-> "/users/me"],
           [method |-> "GET", path |-> "/users/me"]}

HttpRequest(route, referer, csrf_cookie, csrf_header, body, stage) ==
    [method |-> route.method, path |-> route.path, referer |-> referer,
     csrf_token |-> csrf_cookie, X_CSRF_Token |-> csrf_header, body |-> body,
     stage |-> stage]

\* The bodies sent to a route: username and password to POST /auth/login;
\* the bodies of the other routes are drawn when their handler runs.
Bodies(route) ==
    IF route.path = "/auth/login"
    THEN {<<u, p>> : u \in Usernames, p \in LoginPasswords}
    ELSE {<<>>}

\* "/docs" in referer, for the Referer values a client sends here.
ContainsDocs(referer) == referer = "http://localhost:8000/api/docs"

\* AuthDomainService.verify_csrf_token: hmac.compare_digest of the two.
verify_csrf_token(token1, token2) == token1 = token2

\* application.services.auth_service defines AuthApplicationService and no
\* AuthService: the import inside csrf_protect raises ImportError.
AuthServiceImports == FALSE

\* csrf_protect: the request is passed on to call_next, or an exception
\* leaves the middleware.
csrf_protect(request) ==
    LET Forward == [forward |-> TRUE, exc |-> "none"]
        Raise(exc) == [forward |-> FALSE, exc |-> exc]
    IN  IF request.referer # "" /\ ContainsDocs(request.referer) THEN Forward
        ELSE IF request.method \in {"POST", "PUT", "DELETE"}
          THEN IF request.csrf_token = NoCsrf \/ request.X_CSRF_Token = NoCsrf
                 THEN Raise("HTTPException 403 CSRF token missing")
               ELSE IF ~AuthServiceImports THEN Raise("ImportError")
               ELSE IF ~verify_csrf_token(request.csrf_token, request.X_CSRF_Token)
                 THEN Raise("HTTPException 403 Invalid CSRF token")
               ELSE Forward
        ELSE Forward

\* An exception that leaves an http middleware passes by the handler
\* registered for HTTPException, which serves the routes only, and is
\* answered by general_exception_handler with 500.
middleware_exception_status(exc) == 500

HttpInit ==
    /\ users = << >>
    /\ now = 0
    /\ tzOffset = 0
    /\ minted = {}
    /\ mints = 0
    /\ last = Idle
    /\ calls = << >>
    /\ store_up = TRUE

\* A request arrives.
Arrive(route, referer, csrf_cookie, csrf_header, body) ==
    /\ last = Idle
    /\ calls = << >>
    /\ calls' = <<HttpRequest(route, referer, csrf_cookie, csrf_header, body, "middleware")>>
    /\ UNCHANGED <<users, now, tzOffset, minted, mints, last, store_up>>

\* csrf_protect runs on the request.
CsrfProtect ==
    LET request == calls[1]
        out == csrf_protect(request)
    IN  /\ Len(calls) = 1
        /\ request.stage = "middleware"
        /\ calls' = <<[request EXCEPT !.stage = IF out.forward THEN "forwarded" ELSE "stopped"]>>
        /\ last' = IF out.forward THEN last
                   ELSE Response("middleware", NoToken, middleware_exception_status(out.exc),
                                 out.exc, NoBody, NoneVal, {}, {})
        /\ UNCHANGED <<users, now, tzOffset, minted, mints, store_up>>

\* The request that call_next hands to the router is for this route.
Forwarded(method, path) ==
    /\ Len(calls) = 1
    /\ calls[1].stage = "forwarded"
    /\ calls[1].method = method
    /\ calls[1].path = path

\* The response is sent.
HttpReply ==
    /\ Len(calls) = 1
    /\ last # Idle
    /\ last' = Idle
    /\ calls' = << >>
    /\ UNCHANGED <<users, now, tzOffset, minted, mints, store_up>>

HttpNext ==
    \/ \E route \in Routes, referer \in Referers, csrf_cookie \in CsrfTokens \cup {NoCsrf},
          csrf_header \in CsrfTokens \cup {NoCsrf} :
          \E body \in Bodies(route) : Arrive(route, referer, csrf_cookie, csrf_header, body)
    \/ CsrfProtect
    \/ Forwarded("POST", "/auth/login") /\ Login(calls[1].body[1], calls[1].body[2])
    \/ \E r \in Registrations, s \in Salts :
          Forwarded("POST", "/users/register") /\ Register(r[1], r[2], r[3], r[4], s)
    \/ \E r \in CookieRequests, u \in Updates :
          \E s \in UpdateSalts(u[2]) :
             Forwarded("PUT", "/users/me") /\ PutMe(r, u[1], u[2], u[3], s)
    \/ \E r \in CookieRequests : Forwarded("DELETE", "/users/me") /\ DeleteMe(r)
    \/ \E r \in CookieRequests : Forwarded("GET", "/users/me") /\ GetMe(r)
    \/ HttpReply

HttpSpec == HttpInit /\ [][HttpNext]_vars

\* ------------------------------------------------- credential lifecycle
\* The user service and Login called directly, with a string username.  The
\* variable calls is a history: for every username registered and not yet
\* deleted, the password of the last request for that user that was
\* answered with success (201 of register_user, 200 of update_user with a
\* password).
LifecycleInit ==
    /\ users = << >>
    /\ now = 0
    /\ tzOffset = 0
    /\ minted = {}
    /\ mints = 0
    /\ last = Idle
    /\ store_up = TRUE
    /\ calls = << >>

\* Bodies of update_user calls: those of PUT /users/me, the password the
\* user registered with, a password against the policy, an acceptable
\* password together with a date of birth in the future, and bodies where a
\* rejected field follows fields that were accepted, and the date of birth
\* of a seventeen-year-old.
LifecycleUpdates ==
    Updates \cup {<<NoEmail, PwSecure, NoDate>>, <<NoEmail, PwWrong, NoDate>>,
                  <<NoEmail, PwOther, DobTomorrow>>, <<"a@x.io", PwOther, NoDate>>,
                  <<"b@x.io", PwWrong, NoDate>>, <<"b@x.io", PwOther, DobTomorrow>>,
                  <<NoEmail, NoPassword, DobMinor>>}

\* UserApplicationService.register_user and repository.create.
RegisterService(username, email, password, date_of_birth, salt) ==
    LET out == register_user(username, email, password, date_of_birth)
    IN  /\ last = Idle
        /\ users' = IF out.create
                    THEN [u \in DOMAIN users \cup {username} |->
                            IF u = username
                            THEN NewRow(email, password, date_of_birth, salt)
                            ELSE users[u]]
                    ELSE users
        /\ last' = [Response("register", NoToken, out.status, out.detail, out.body,
                             NoneVal, {}, {})
                       EXCEPT !.args = <<username, email, password, date_of_birth>>]
        /\ calls' = IF out.status = 201
                    THEN [u \in DOMAIN calls \cup {username} |->
                            IF u = username THEN password ELSE calls[u]]
                    ELSE calls
        /\ UNCHANGED <<now, tzOffset, minted, mints, store_up>>

\* UserApplicationService.update_user and repository.update, which selects
\* the row by username and overwrites its other columns.
UpdateService(username, email, password, date_of_birth, salt) ==
    LET out == update_user(Str(username), email, password, date_of_birth)
    IN  /\ last = Idle
        /\ users' = IF out.write
                    THEN [users EXCEPT ![out.username] =
                            [email |-> out.email,
                             password_hashed |->
                                 IF password # NoPassword
                                 THEN hash_password(password, salt)
                                 ELSE users[out.username].password_hashed,
                             date_of_birth |-> out.date_of_birth]]
                    ELSE users
        /\ last' = [Response("update", NoToken, out.status, out.detail, out.body,
                             NoneVal, {}, {})
                       EXCEPT !.args = <<username, email, password, date_of_birth>>]
        /\ calls' = IF out.status = 200 /\ password # NoPassword
                    THEN [calls EXCEPT ![username] = password]
                    ELSE calls
        /\ UNCHANGED <<now, tzOffset, minted, mints, store_up>>

\* UserApplicationService.delete_user and repository.delete.
DeleteService(username) ==
    LET out == delete_user(Str(username))
    IN  /\ last = Idle
        /\ users' = IF out.delete
                    THEN [u \in DOMAIN users \ {username} |-> users[u]]
                    ELSE users
        /\ last' = [Response("delete", NoToken, out.status, out.detail, NoBody,
                             NoneVal, {}, {})
                       EXCEPT !.args = <<username>>]
        /\ calls' = IF out.status = 204
                    THEN [u \in DOMAIN calls \ {username} |-> calls[u]]
                    ELSE calls
        /\ UNCHANGED <<now, tzOffset, minted, mints, store_up>>

\* UserApplicationService.get_user_by_username, as GET /users/me calls it.
GetUserByUsername(username) ==
    LET user == get_by_username(Str(username))
        Answer(st, dt, body) ==
            [Response("me", NoToken, st, dt, body, NoneVal, {}, {})
                EXCEPT !.args = <<username>>]
    IN  /\ last = Idle
        /\ last' = CASE user.kind = "raise" -> Answer(500, "internal", NoBody)
                     [] user.kind = "none" -> Answer(404, "user not found", NoBody)
                     [] OTHER -> Answer(200, "", UserInfoSchema(user))
        /\ UNCHANGED <<users, now, tzOffset, minted, mints, calls, store_up>>

\* UserApplicationService.get_user_info and UserInfoSchema(**user_info), as
\* GET /users/{username} calls them.
GetUserInfo(username) ==
    LET user_info == get_user_info(Str(username))
    IN  /\ last = Idle
        /\ last' = [Response("get_user", NoToken, user_info.status, user_info.detail,
                             IF user_info.status = 200 THEN UserInfoSchema(user_info.body)
                             ELSE user_info.body,
                             NoneVal, {}, {})
                       EXCEPT !.args = <<username>>]
        /\ UNCHANGED <<users, now, tzOffset, minted, mints, calls, store_up>>

LifecycleNext ==
    \/ \E r \in Registrations, s \in Salts : RegisterService(r[1], r[2], r[3], r[4], s)
    \/ \E u \in Usernames, b \in LifecycleUpdates :
          \E s \in UpdateSalts(b[2]) : UpdateService(u, b[1], b[2], b[3], s)
    \/ \E u \in Usernames : DeleteService(u)
    \/ \E u \in Usernames, p \in LoginPasswords \cup {PwWrong} : Login(u, p)
    \/ \E t \in minted : Refresh(t)
    \/ \E u \in Usernames : GetUserByUsername(u)
    \/ \E u \in Usernames : GetUserInfo(u)
    \/ Reply

LifecycleSpec == LifecycleInit /\ [][LifecycleNext]_vars

\* ------------------------------------------- concurrent update and delete
\* update_user and delete_user calls of concurrent requests, each in its own
\* session, split at their awaits.  get_by_username returns an entity copied
\* from the row (to_entity) and keeps no reference to the loaded model, so
\* repository.update loads the row anew; at commit the unit of work writes
\* the columns whose entity value differs from the value just loaded.
EditInit ==
    /\ users = [u \in {"alice"} |-> NewRow("a@x.io", PwSecure, DobAdult, 1)]
    /\ now = 0
    /\ tzOffset = 0
    /\ minted = {}
    /\ mints = 0
    /\ last = Idle
    /\ store_up = TRUE
    /\ calls = [p \in Procs |-> NoCall]

\* An update_user call at the given await: its arguments, the row as
\* get_by_username read it, the entity as changed so far, and the row as
\* repository.update loaded it.
EditCall(pc, username, email, password, read, entity, loaded) ==
    [op |-> "update", pc |-> pc, username |-> username, email |-> email,
     password |-> password, read |-> read, entity |-> entity, loaded |-> loaded]
DeleteCall(pc, username) == [op |-> "delete", pc |-> pc, username |-> username]

\* A call that has ended with a status at the statement named by at.
EditEnded(call, status, at) ==
    [c \in DOMAIN call \cup {"status", "at"} |->
        CASE c = "pc" -> "done"
          [] c = "status" -> status
          [] c = "at" -> at
          [] OTHER -> call[c]]

\* A request arrives: update_user with an email, a password or both, or
\* delete_user.
StartEdit(p, username, email, password) ==
    /\ calls[p] = NoCall
    /\ email # NoEmail \/ password # NoPassword
    /\ calls' = [calls EXCEPT ![p] =
                    EditCall("get_by_username", username, email, password,
                             NoneVal, NoneVal, NoneVal)]
    /\ UNCHANGED <<users, now, tzOffset, minted, mints, last, store_up>>

StartDelete(p, username) ==
    /\ calls[p] = NoCall
    /\ calls' = [calls EXCEPT ![p] = DeleteCall("select", username)]
    /\ UNCHANGED <<users, now, tzOffset, minted, mints, last, store_up>>

\* update_user from the password check to the call of repository.update:
\* no await in between.
EditPassword(call, entity) ==
    IF call.password # NoPassword /\ validate_password(call.password) # <<>>
    THEN EditEnded(call, 400, "validate_password")
    ELSE EditCall("select", call.username, call.email, call.password, call.read,
                  IF call.password # NoPassword
                  THEN [entity EXCEPT !.password_hashed = hash_password(call.password, 2)]
                  ELSE entity,
                  NoneVal)

\* update_user, first await: the user must be in the directory.
EditGetByUsername(p) ==
    LET call == calls[p]
        user == get_by_username(Str(call.username))
        read == users[call.username]
        next == EditCall("get_by_email", call.username, call.email, call.password,
                         read, read, NoneVal)
    IN  /\ call.op = "update" /\ call.pc = "get_by_username"
        /\ calls' = [calls EXCEPT ![p] =
                        IF user.kind = "none"
                          THEN EditEnded(call, 404, "get_by_username")
                        ELSE IF call.email # NoEmail THEN next
                        ELSE EditPassword(next, read)]
        /\ UNCHANGED <<users, now, tzOffset, minted, mints, last, store_up>>

\* update_user, second await: the email must not be another user's.
EditGetByEmail(p) ==
    LET call == calls[p]
        existing_email == get_by_email(call.email)
    IN  /\ call.op = "update" /\ call.pc = "get_by_email"
        /\ calls' = [calls EXCEPT ![p] =
                        IF existing_email.kind = "raise"
                          THEN EditEnded(call, 500, "get_by_email")
                        ELSE IF existing_email.kind = "user"
                                /\ existing_email.username # call.username
                          THEN EditEnded(call, 409, "get_by_email")
                        ELSE EditPassword(call, [call.entity EXCEPT !.email = call.email])]
        /\ UNCHANGED <<users, now, tzOffset, minted, mints, last, store_up>>

\* repository.update, first await: the row is selected again; when it is
\* gone ValueError is raised, which is no HTTPException, so the general
\* exception handler answers 500.
EditSelect(p) ==
    LET call == calls[p]
    IN  /\ call.op = "update" /\ call.pc = "select"
        /\ calls' = [calls EXCEPT ![p] =
                        IF call.username \notin DOMAIN users
                        THEN EditEnded(call, 500, "select")
                        ELSE EditCall("commit", call.username, call.email, call.password,
                                      call.read, call.entity, users[call.username])]
        /\ UNCHANGED <<users, now, tzOffset, minted, mints, last, store_up>>

\* repository.update, commit: the columns set to a value other than the
\* loaded one are written; an UPDATE that matches no row raises
\* StaleDataError (500).
EditCommit(p) ==
    LET call == calls[p]
        Column(c) == IF call.entity[c] # call.loaded[c]
                     THEN call.entity[c] ELSE users[call.username][c]
        written == \E c \in DOMAIN call.entity : call.entity[c] # call.loaded[c]
    IN  /\ call.op = "update" /\ call.pc = "commit"
        /\ users' = IF call.username \in DOMAIN users
                    THEN [users EXCEPT ![call.username] =
                             [c \in DOMAIN call.entity |-> Column(c)]]
                    ELSE users
        /\ calls' = [calls EXCEPT ![p] =
                        IF call.username \notin DOMAIN users /\ written
                        THEN EditEnded(call, 500, "commit")
                        ELSE IF call.username \notin DOMAIN users
                        THEN EditEnded(call, 500, "refresh")
                        ELSE EditEnded(call, 200, "commit")]
        /\ UNCHANGED <<now, tzOffset, minted, mints, last, store_up>>

\* repository.delete, first await: False (404) when no row has the username.
DeleteSelect(p) ==
    LET call == calls[p]
    IN  /\ call.op = "delete" /\ call.pc = "select"
        /\ calls' = [calls EXCEPT ![p] =
                        IF call.username \notin DOMAIN users
                        THEN EditEnded(call, 404, "select")
                        ELSE DeleteCall("commit", call.username)]
        /\ UNCHANGED <<users, now, tzOffset, minted, mints, last, store_up>>

\* repository.delete, commit: the row is deleted; a DELETE that matches no
\* row raises StaleDataError (500).
DeleteCommit(p) ==
    LET call == calls[p]
    IN  /\ call.op = "delete" /\ call.pc = "commit"
        /\ users' = [u \in DOMAIN users \ {call.username} |-> users[u]]
        /\ calls' = [calls EXCEPT ![p] =
                        IF call.username \in DOMAIN users
                        THEN EditEnded(call, 204, "commit")
                        ELSE EditEnded(call, 500, "commit")]
        /\ UNCHANGED <<now, tzOffset, minted, mints, last, store_up>>

EditNext ==
    \/ \E p \in Procs, u \in Usernames, e \in {NoEmail, "b@x.io"},
          pw \in {NoPassword, PwOther, PwWrong} : StartEdit(p, u, e, pw)
    \/ \E p \in Procs, u \in Usernames : StartDelete(p, u)
    \/ \E p \in Procs : EditGetByUsername(p)
    \/ \E p \in Procs : EditGetByEmail(p)
    \/ \E p \in Procs : EditSelect(p)
    \/ \E p \in Procs : EditCommit(p)
    \/ \E p \in Procs : DeleteSelect(p)
    \/ \E p \in Procs : DeleteCommit(p)
    \/ \E p \in Procs : Return(p)

EditSpec == EditInit /\ [][EditNext]_vars

\* ------------------------------------------ sessions and password changes
\* The user service and the Auth Core called directly while the clock
\* advances, under each UTC offset of the server's local clock.
SessionInit ==
    /\ users = << >>
    /\ now = 0
    /\ tzOffset \in TzOffsets
    /\ minted = {}
    /\ mints = 0
    /\ last = Idle
    /\ store_up = TRUE
    /\ calls = << >>

SessionNext ==
    \/ \E s \in Salts : RegisterService("alice", "a@x.io", PwSecure, DobAdult, s)
    \/ \E pw \in {PwOther, PwWrong} : UpdateService("alice", NoEmail, pw, NoDate, 1)
    \/ DeleteService("alice")
    \/ \E p \in LoginPasswords : Login("alice", p)
    \/ \E t \in minted : Refresh(t)
    \/ Reply
    \/ Tick

SessionSpec == SessionInit /\ [][SessionNext]_vars

\* ---------------------------------------------------------------- claims
\* A refresh token the service minted, presented to Refresh while its
\* subject is in the directory.
RefreshOfMinted ==
    /\ last.op = "refresh"
    /\ last.tok \in minted
    /\ last.tok.type = "refresh"
    /\ last.tok.sub \in DOMAIN users

\* C1: token type separation.  Refresh never succeeds on a token whose type
\* claim is "access", and the Session Authenticator never yields an identity
\* for a token whose type claim is "refresh", however valid the token is.
C1_TokenTypeSeparation ==
    /\ (last.op = "refresh" /\ last.tok.kind = "jwt" /\ last.tok.type = "access")
          => (last.status # 200 /\ last.body = NoBody)
    /\ (last.op = "me" /\ last.tok.kind = "jwt" /\ last.tok.type = "refresh")
          => last.identity.kind = "none"

\* A signed, unexpired access token of an existing user was given to
\* Refresh, and the type check is what turned it away.
C1_Witness ==
    /\ last.op = "refresh"
    /\ last.tok \in minted
    /\ last.tok.type = "access"
    /\ now <= last.tok.exp
    /\ last.tok.sub \in DOMAIN users
    /\ last.status = 401
    /\ last.detail = "invalid refresh token"

\* C2: login fails uniformly.  A login that fails because the username is
\* not in the directory and one that fails because the password is wrong
\* get the same response (401, same detail, no body, no cookie), and
\* neither mints a token.
C2_LoginFailsUniformly ==
    /\ [](  (last.op = "login" /\ last.cause \in {"miss", "mismatch"})
              => /\ last.status = 401
                 /\ last.detail = "invalid credentials"
                 /\ last.body = NoBody
                 /\ last.set_cookies = {} )
    /\ [][ (last'.op = "login" /\ last'.cause \in {"miss", "mismatch"})
              => (minted' = minted /\ mints' = mints) ]_vars

\* A login for an existing user with a wrong password was turned away.
C2_Witness ==
    /\ last.op = "login"
    /\ last.cause = "mismatch"
    /\ last.status = 401

\* C3: every successful login and refresh sets the access-token cookie
\* (http-only), the refresh-token cookie (http-only) and a fresh CSRF-token
\* cookie (script-readable) on the response.
C3_LoginAndRefreshSetCookies ==
    (last.op \in {"login", "refresh"} /\ last.status = 200)
       => /\ \E c \in last.set_cookies :
                c.key = "access_token" /\ c.httponly /\ c.value = last.body.access_token
          /\ \E c \in last.set_cookies :
                c.key = "refresh_token" /\ c.httponly /\ c.value = last.body.refresh_token
          /\ \E c \in last.set_cookies : c.key = "csrf_token" /\ ~c.httponly

\* C4: refresh rotation.  Refresh of a minted, unexpired refresh token whose
\* subject exists returns a new access and a new refresh token for the same
\* subject, different from every token minted before.
C4_RefreshRotation ==
    [][ (RefreshOfMinted' /\ now' < last'.tok.exp)
           => /\ last'.status = 200
              /\ last'.body.kind = "tokens"
              /\ last'.body.access_token.sub = last'.tok.sub
              /\ last'.body.access_token.type = "access"
              /\ last'.body.refresh_token.sub = last'.tok.sub
              /\ last'.body.refresh_token.type = "refresh"
              /\ last'.body.access_token \notin minted
              /\ last'.body.refresh_token \notin minted
              /\ last'.body.access_token # last'.body.refresh_token ]_vars

\* C5: access-token round trip with the expiry boundary.  A minted access
\* token decodes before its exp (the authenticator yields its subject), and
\* from exp on, the instant exp included, it decodes to an expired error and
\* the authenticator yields anonymous.
C5_AccessTokenExpiryBoundary ==
    (last.op = "me" /\ last.tok \in minted /\ last.tok.type = "access")
       => /\ now < last.tok.exp
                => /\ jwt_decode(last.tok).ok
                   /\ last.tok.sub \in DOMAIN users
                         => (last.identity.kind = "user"
                             /\ last.identity.username = last.tok.sub)
          /\ now >= last.tok.exp
                => /\ jwt_decode(last.tok).exc = "ExpiredSignatureError"
                   /\ last.identity.kind = "none"

\* C6: refresh-token lifetime.  Whatever the UTC offset of the server's
\* local clock, Refresh accepts a minted refresh token at every instant
\* before its exp and rejects it as expired only at instants past its exp.
C6_RefreshTokenLifetime ==
    RefreshOfMinted
       => /\ now < last.tok.exp => last.status = 200
          /\ last.status # 200 => now > last.tok.exp

\* C7: deletion implicitly revokes sessions.  While user u is absent from
\* the directory, Refresh fails for every refresh token whose sub is u, and
\* the authenticator yields anonymous for every access token whose sub is u,
\* so GET /users/me returns no user info.
C7_DeletionRevokesSessions ==
    /\ (last.op = "refresh" /\ last.tok.kind = "jwt" /\ last.tok.type = "refresh"
            /\ last.tok.sub \notin DOMAIN users)
          => (last.status # 200 /\ last.body = NoBody)
    /\ (last.op = "me" /\ last.tok.kind = "jwt" /\ last.tok.type = "access"
            /\ last.tok.sub \notin DOMAIN users)
          => (last.identity.kind = "none" /\ last.body.kind # "user_info")

\* A refresh token minted for a user who was then deleted was given to
\* Refresh, passed every check on the token and failed on the lookup.
C7_Witness ==
    /\ last.op = "refresh"
    /\ last.tok \in minted
    /\ last.tok.type = "refresh"
    /\ last.tok.sub \notin DOMAIN users
    /\ last.status = 401
    /\ last.detail = "user not found"

\* C8: no server-side revocation.  In every state, after any logout and
\* any earlier rotation, Refresh accepts every minted refresh token that is
\* before its exp and whose subject exists.
C8_NoServerSideRevocation ==
    \A t \in minted :
        (t.type = "refresh" /\ now < t.exp /\ t.sub \in DOMAIN users)
           => refresh_token(t).ok

\* C9: logout clears the client's token storage.  The response of a
\* handled POST /auth/logout deletes the access_token, refresh_token and
\* csrf_token cookies, whatever token was supplied.
C9_LogoutClearsCookies ==
    (last.op = "logout" /\ last.status = 204) => last.del_cookies = AuthCookies

ValidAccess(t) ==
    /\ t \in minted
    /\ t.type = "access"
    /\ now <= t.exp
    /\ t.sub \in DOMAIN users

\* C12: extraction order of the Session Authenticator.  With a cookie
\* present the token is the cookie's and the Authorization header plays no
\* part: the identity is the one the cookie alone gives, and a cookie that
\* is no valid access token gives anonymous even beside a header carrying a
\* valid access token.  Only without a cookie is the Bearer credential
\* the token.
C12_CookieBeforeHeader ==
    /\ (last.op = "me" /\ last.request.access_token.kind # "none")
          => /\ last.tok = last.request.access_token
             /\ last.identity = get_current_user(Request(last.request.access_token, NoHeader))
             /\ ~ValidAccess(last.request.access_token) => last.identity.kind = "none"
    /\ (last.op = "me" /\ last.request.access_token.kind = "none"
           /\ last.request.Authorization.kind # "none"
           /\ last.request.Authorization.scheme = "Bearer")
          => last.tok = last.request.Authorization.cred

\* A request carried a cookie that is no token and a Bearer header with a
\* valid access token, and was treated as anonymous.
C12_Witness ==
    /\ last.op = "me"
    /\ last.request.access_token = Garbage
    /\ last.request.Authorization.kind = "header"
    /\ last.request.Authorization.scheme = "Bearer"
    /\ ValidAccess(last.request.Authorization.cred)
    /\ last.identity.kind = "none"

\* C13: the Session Authenticator is fail-closed and silent.  It never
\* raises; it yields an identity only for a token signed by the service,
\* of type access, with a subject, not expired (now before its exp), whose
\* subject is in the directory, and the identity is that user's record;
\* for no token and for every other token it yields anonymous.
C13_FailClosedAuthenticator ==
    last.op = "me"
       => /\ last.identity.kind \in {"none", "user"}
          /\ last.identity.kind = "user"
                => /\ last.tok.kind = "jwt"
                   /\ last.tok.sig = "good"
                   /\ last.tok.type = "access"
                   /\ last.tok.sub \in DOMAIN users
                   /\ now < last.tok.exp
                   /\ last.identity = to_entity(last.tok.sub)

\* The routes under /users that the interface puts behind an access token.
ProtectedOps == {"me", "get_user", "put_me", "delete_me"}

\* C14: protected endpoints require a valid access token.  A request to
\* GET /users/me, PUT /users/me, DELETE /users/me or GET /users/{username}
\* for which the Session Authenticator yields anonymous is answered 401,
\* never with user data, and changes nothing in the directory; 404 answers
\* only a request whose token was valid while its user is gone.
C14_ProtectedEndpointsRequireToken ==
    /\ [](  (last.op \in ProtectedOps /\ last.identity.kind = "none")
              => (last.status = 401 /\ last.body = NoBody) )
    /\ [](  (last.op \in ProtectedOps /\ last.status = 404)
              => (last.tok \in minted /\ last.tok.type = "access"
                  /\ last.tok.sub \notin DOMAIN users) )
    /\ [][ (last'.op \in ProtectedOps /\ last'.identity.kind = "none")
              => users' = users ]_vars

\* C17: sequential duplicate registration is rejected.  A register_user
\* whose username is in the directory, or whose email is held by a user in
\* the directory, ends with 409 and leaves the directory as it was: no
\* record added, no field of a record changed.
C17_DuplicateRegistrationRejected ==
    [][ (last'.op = "register"
           /\ (\/ last'.args[1] \in DOMAIN users
               \/ \E u \in DOMAIN users : users[u].email = last'.args[2]))
          => (last'.status = 409 /\ last'.body = NoBody /\ users' = users) ]_vars

\* A new username was registered with an email another user holds, and was
\* turned away while the directory kept its one record.
C17_Witness ==
    /\ last.op = "register"
    /\ last.status = 409
    /\ last.args[1] \notin DOMAIN users
    /\ \E u \in DOMAIN users : users[u].email = last.args[2]

\* C15: directory uniqueness.  Under every interleaving of concurrent
\* register_user and update_user calls no two user records share a username
\* (the directory holds one row per username) and no two share an email.
C15_DirectoryUniqueness ==
    \A u1, u2 \in DOMAIN users : u1 # u2 => users[u1].email # users[u2].email

\* C16: a registration race is surfaced as a conflict.  A register_user
\* call that passed both existence checks and then found its username in
\* the directory at the insert ends with 409, one record with the username
\* is there, and the call ends neither with success nor with 500.
C16_RegistrationRaceIsConflict ==
    \A p \in DOMAIN calls :
        (calls[p].op = "register" /\ calls[p].pc = "done" /\ calls[p].at = "create"
            /\ calls[p].status # 201)
           => (calls[p].status = 409 /\ calls[p].username \in DOMAIN users)

\* x is one of the elements of the sequence.
InSeq(x, seq) == \E i \in 1..Len(seq) : seq[i] = x

\* C18: validate_password reports exactly the violated rules.  For every
\* password the list has the message of a rule iff the password breaks that
\* rule, for each of the five rules on its own (length in 8..20, a
\* lowercase letter, an uppercase letter, a digit, one of @$!%*?&#); it is
\* empty iff all five hold, and no violation hides another.
C18_ValidatePasswordExact ==
    (Len(calls) = 1 /\ calls[1].op = "validate_password" /\ calls[1].pc = "done")
       => LET c == calls[1]
          IN  /\ InSeq("length", c.errors) <=> (c.n < 8 \/ c.n > 20)
              /\ InSeq("lowercase", c.errors) <=> ~c.lower
              /\ InSeq("uppercase", c.errors) <=> ~c.upper
              /\ InSeq("digit", c.errors) <=> ~c.digit
              /\ InSeq("special", c.errors) <=> ~c.special
              /\ (c.errors = <<>>)
                    <=> (c.n >= 8 /\ c.n <= 20 /\ c.lower /\ c.upper /\ c.digit /\ c.special)
              /\ Len(c.password) = c.n

\* A password too long and without a digit was validated: both violations
\* are in the list and nothing else is.
C18_Witness ==
    /\ Len(calls) = 1
    /\ calls[1].op = "validate_password"
    /\ calls[1].pc = "done"
    /\ calls[1].n > 20
    /\ ~calls[1].digit
    /\ calls[1].errors = <<"length", "digit">>

\* A register_user call whose input has been validated.
Validated ==
    /\ Len(calls) = 1
    /\ calls[1].op = "register_user"
    /\ calls[1].pc \in {"validated", "done"}

\* The registrations that are acceptable, told by the input alone: the
\* username of five characters, the email with '@', the password that
\* keeps all five rules, a date of birth eighteen years back or more.
Acceptable(c) ==
    /\ c.username = "alice"
    /\ c.email = "a@x.io"
    /\ c.password = PwSecure
    /\ c.date_of_birth \in {DobAdult, DobEighteenToday, DobEarlierMonth}

\* C19: validate_registration returns an empty list iff the registration
\* is acceptable (age 18 or more, username of 3 or more characters, '@' in
\* the email, date of birth not in the future, all five password rules),
\* and register_user creates a record only when that list is empty.
C19_ValidateRegistrationAccepts ==
    /\ [](Validated => ((calls[1].errors = <<>>) <=> Acceptable(calls[1])))
    /\ [][ (Validated' /\ users' # users) => calls'[1].errors = <<>> ]_vars

\* An acceptable registration was validated to an empty list and its
\* record was created.
C19_Witness ==
    /\ Validated
    /\ calls[1].pc = "done"
    /\ calls[1].errors = <<>>
    /\ calls[1].status = 201
    /\ calls[1].username \in DOMAIN users
    /\ users[calls[1].username].date_of_birth = DobEarlierMonth

\* C20: age boundary at registration.  The age is today.year - dob.year,
\* less one when (today.month, today.day) is before (dob.month, dob.day).
\* A registrant born today minus 17 years gets the age violation, is
\* answered 400 with it and is not created; one whose 18th birthday is
\* today does not get the age violation; one whose 18th birthday is
\* tomorrow, or later this year, does.
C20_AgeBoundary ==
    Validated
       => LET c == calls[1]
              dob == c.date_of_birth
              before == Today[2] < dob[2] \/ (Today[2] = dob[2] /\ Today[3] < dob[3])
          IN  /\ c.age = Today[1] - dob[1] - (IF before THEN 1 ELSE 0)
              /\ InSeq("age", c.errors) <=> c.age < 18
              /\ dob = DobSeventeen
                    => /\ InSeq("age", c.errors)
                       /\ \A u \in DOMAIN users : users[u].date_of_birth # DobSeventeen
                       /\ c.pc = "done" => c.status # 201
                       /\ (c.pc = "done" /\ c.username \notin DOMAIN users
                              /\ c.email \notin {users[u].email : u \in DOMAIN users})
                             => (c.status = 400 /\ c.body.kind = "errors"
                                 /\ InSeq("age", c.body.errors))
              /\ dob = DobEighteenToday => ~InSeq("age", c.errors)
              /\ dob \in {DobMinor, DobLaterMonth} => InSeq("age", c.errors)

\* A registration that fails nothing but the age, the eighteenth birthday
\* being tomorrow, was answered 400 with the age violation alone.
C20_Witness ==
    /\ Validated
    /\ calls[1].pc = "done"
    /\ calls[1].date_of_birth = DobMinor
    /\ calls[1].age = 17
    /\ calls[1].status = 400
    /\ calls[1].body.errors = <<"age">>
    /\ users = << >>

\* C21: a directory failure is not conflated with an authentication
\* failure.  A Login, and a Refresh that got as far as its directory
\* lookup, handled while the store does not answer, ends with a 5xx and not
\* with the 401 of a wrong password or a bad token.
C21_StoreFailureIsUnavailable ==
    (~store_up /\ last.op \in {"login", "refresh"} /\ last.reads = 1)
       => (last.status >= 500 /\ last.status # 401)

\* A request of a state-changing method that csrf_protect has dealt with.
StateChanging ==
    /\ Len(calls) = 1
    /\ calls[1].stage \in {"forwarded", "stopped"}
    /\ calls[1].method \in {"POST", "PUT", "DELETE"}

\* C22: CSRF enforcement.  Every POST, PUT or DELETE that reaches its
\* handler carried an X-CSRF-Token header equal to its csrf_token cookie;
\* one with the cookie missing, the header missing or the two unequal is
\* answered 403 without its handler running, whatever its Referer.
C22_CsrfEnforced ==
    StateChanging
       => LET r == calls[1]
              matching == r.csrf_token # NoCsrf /\ r.X_CSRF_Token = r.csrf_token
          IN  /\ r.stage = "forwarded" => matching
              /\ ~matching => (r.stage = "stopped" /\ last.status = 403)

\* C23: CSRF verification accepts equal tokens.  verify_csrf_token(a, b)
\* is true exactly for a = b, and a POST, PUT or DELETE whose X-CSRF-Token
\* header equals its csrf_token cookie passes csrf_protect and is forwarded
\* to its handler.
C23_CsrfAcceptsEqualTokens ==
    /\ \A a, b \in CsrfTokens : verify_csrf_token(a, b) <=> a = b
    /\ (StateChanging /\ calls[1].csrf_token # NoCsrf
           /\ calls[1].X_CSRF_Token = calls[1].csrf_token)
          => calls[1].stage = "forwarded"

\* C24: the authenticated state is reachable through the HTTP surface.  A
\* POST /auth/login of a client without cookies, with the username and the
\* password of a registered user, is answered with an access and refresh
\* token pair once csrf_protect has dealt with it.
C24_LoginReachableOverHttp ==
    (/\ Len(calls) = 1
     /\ calls[1].path = "/auth/login"
     /\ calls[1].csrf_token = NoCsrf
     /\ calls[1].stage \in {"forwarded", "stopped"}
     /\ last # Idle
     /\ Cause(calls[1].body[1], calls[1].body[2]) = "ok")
       => (last.op = "login" /\ last.status = 200 /\ last.body.kind = "tokens")

\* C25: token uniqueness.  Every create_tokens call adds two token strings
\* that were never minted before, so no two minted tokens share a jti: the
\* access and the refresh token of one pair differ, and so do two pairs
\* minted for the same subject at the same instant.  Each minted token
\* decodes as valid at every instant before its own exp, and minting further
\* tokens changes neither Refresh's nor the authenticator's verdict on any
\* token minted earlier.
C25_TokenUniqueness ==
    /\ [](/\ Cardinality(minted) = 2 * mints
          /\ \A t1, t2 \in minted : t1.jti = t2.jti => t1 = t2
          /\ \A t \in minted : now < t.exp => jwt_decode(t).ok)
    /\ [][ minted' # minted
             => \A t \in minted :
                   /\ refresh_token(t)'.ok = refresh_token(t).ok
                   /\ get_current_user(Request(t, NoHeader))'
                         = get_current_user(Request(t, NoHeader)) ]_vars

\* Two pairs were minted for the same subject at the same instant: their
\* access tokens agree on sub, type and exp and are different strings.
C25_Witness ==
    \E t1, t2 \in minted :
        /\ t1 # t2
        /\ t1.type = "access" /\ t2.type = "access"
        /\ t1.sub = t2.sub
        /\ t1.exp = t2.exp
        /\ \E r \in minted : r.type = "refresh" /\ r.sub = t1.sub /\ r.exp > t1.exp

\* authenticate_user returns tokens for these credentials.
LoginSucceeds(username, password) == authenticate_user(username, password).kind # "none"

\* C26: credential lifecycle.  After any sequence of register, update,
\* delete and login calls, Login(u, p) succeeds exactly when u is in the
\* directory and p is the password most recently set for u, by the
\* registration or by the last password update answered with success; so
\* after a change from p to q Login(u, q) succeeds and Login(u, p) fails, and
\* an update that is rejected leaves the accepted password as it was.
C26_CredentialLifecycle ==
    /\ [](\A u \in Usernames, p \in LoginPasswords \cup {PwWrong} :
             LoginSucceeds(u, p) <=> (u \in DOMAIN calls /\ calls[u] = p))
    /\ [][ /\ \A u \in Usernames, p \in LoginPasswords \cup {PwWrong} :
                Login(u, p)
                   => (last'.status = 200 <=> (u \in DOMAIN calls /\ calls[u] = p))
           /\ (last'.op = "update" /\ last'.status # 200)
                 => \A u \in Usernames, p \in LoginPasswords \cup {PwWrong} :
                       LoginSucceeds(u, p)' <=> LoginSucceeds(u, p) ]_vars

\* alice registered with Secure1!x and changed her password to NewPass2#;
\* a later update with a password against the policy has just been rejected.
C26_Witness ==
    /\ last.op = "update"
    /\ last.status = 400
    /\ last.args[1] = "alice"
    /\ last.args[3] = PwWrong
    /\ "alice" \in DOMAIN calls
    /\ calls["alice"] = PwOther
    /\ LoginSucceeds("alice", PwOther)
    /\ ~LoginSucceeds("alice", PwSecure)

\* What a response puts on the wire: the field names of its body.
UserFields == {"kind", "username", "email", "date_of_birth"}
TokenFields == {"kind", "access_token", "refresh_token", "token_type"}
ClaimFields == {"kind", "sub", "type", "exp", "jti", "sig"}

\* C27: the password hash is never returned.  The body of every response of
\* register, GET /users/me, GET /users/{username}, the update, login and
\* refresh is empty, a list of error messages, a token pair whose claims are
\* sub, type, exp and jti, or a user with exactly the fields username, email
\* and date_of_birth; no body has a field for the password or its hash.
C27_PasswordHashNeverReturned ==
    last.op \in {"register", "me", "get_user", "update", "login", "refresh"}
       => /\ last.body.kind \in {"none", "errors", "tokens", "user_info"}
          /\ last.body.kind = "none" => last.body = NoBody
          /\ last.body.kind = "errors"
                => /\ DOMAIN last.body = {"kind", "errors"}
                   /\ \A i \in DOMAIN last.body.errors : last.body.errors[i] \in STRING
          /\ last.body.kind = "tokens"
                => /\ DOMAIN last.body = TokenFields
                   /\ DOMAIN last.body.access_token = ClaimFields
                   /\ DOMAIN last.body.refresh_token = ClaimFields
                   /\ last.body.token_type = "bearer"
          /\ last.body.kind = "user_info"
                => /\ DOMAIN last.body = UserFields
                   /\ last.body.username \in DOMAIN users
                   /\ last.body.email = users[last.body.username].email
                   /\ last.body.date_of_birth = users[last.body.username].date_of_birth

\* GET /users/{username} found alice, whose row holds a password hash, and
\* answered with her user info.
C27_Witness ==
    /\ last.op = "get_user"
    /\ last.status = 200
    /\ last.body.kind = "user_info"
    /\ last.body.username = "alice"
    /\ users["alice"].password_hashed = hash_password(PwSecure, 1)

\* C28: username is immutable.  An update_user call, answered with success
\* or not, leaves the set of usernames as it was and changes the row of no
\* other user, and a successful one answers with the username it was called
\* with; after any sequence of calls the usernames in the directory are
\* those registered and not yet deleted.
C28_UsernameImmutable ==
    /\ [](DOMAIN users = DOMAIN calls)
    /\ [][ last'.op = "update"
             => /\ DOMAIN users' = DOMAIN users
                /\ \A u \in DOMAIN users \ {last'.args[1]} : users'[u] = users[u]
                /\ last'.status = 200
                      => (last'.body.username = last'.args[1]
                          /\ last'.args[1] \in DOMAIN users) ]_vars

\* With alice and bob registered, an update has just given alice the
\* password NewPass2# and left bob's row alone.
C28_Witness ==
    /\ last.op = "update"
    /\ last.status = 200
    /\ last.args[1] = "alice"
    /\ DOMAIN users = {"alice", "bob"}
    /\ users["alice"].password_hashed.digest[2] = PwOther
    /\ users["bob"].password_hashed.digest[2] = PwSecure

\* C29: refresh rejection is terminal for the token.  A token that Refresh
\* rejects in some state (a Refresh call there answers 401 and changes
\* nothing else) is rejected in the state after every step, whatever the
\* step is; so no sequence of operations makes Refresh accept a token it
\* has rejected before.
C29_RefreshRejectionTerminal ==
    [][ \A t \in Presentable : ~refresh_token(t).ok => ~refresh_token(t)'.ok ]_vars

\* C30: order of the registration checks.  A register_user call for a
\* username in the directory ends with 409 for the username, whatever else
\* is wrong with it; otherwise one for an email in the directory ends with
\* 409 for the email, against the policy or not; otherwise one against the
\* policy ends with 400; and a row is written, holding the hash of the
\* password sent, exactly when none of the three checks objects.
C30_RegistrationCheckOrder ==
    [][ RegisterUser
          => LET c == calls[1]
                 d == calls'[1]
                 username_taken == c.username \in DOMAIN users
                 email_taken == \E u \in DOMAIN users : users[u].email = c.email
                 against_policy == c.errors # <<>>
             IN  /\ username_taken
                       => (d.status = 409 /\ d.detail = "username exists")
                 /\ (~username_taken /\ email_taken)
                       => (d.status = 409 /\ d.detail = "email exists")
                 /\ (~username_taken /\ ~email_taken /\ against_policy)
                       => d.status = 400
                 /\ users' # users
                       <=> (~username_taken /\ ~email_taken /\ ~against_policy)
                 /\ users' # users
                       => /\ d.status = 201
                          /\ DOMAIN users' = DOMAIN users \cup {c.username}
                          /\ verify_password(c.password,
                                             users'[c.username].password_hashed) ]_vars

\* A registration reusing alice's username and email, with a password
\* against the policy, was answered with the username conflict.
C30_Witness ==
    /\ calls[1].op = "register_user"
    /\ calls[1].pc = "done"
    /\ calls[1].username = "alice"
    /\ calls[1].email = "a@x.io"
    /\ calls[1].password = PwWrong
    /\ calls[1].errors # <<>>
    /\ calls[1].status = 409
    /\ calls[1].detail = "username exists"
    /\ DOMAIN users = {"alice"}

\* C31: update_user is all-or-nothing on error.  A call that ends with 404,
\* 409 or 400 leaves the whole directory as it was, the fields of the same
\* call that were accepted before the rejected one included; and a call for
\* a missing user ends with 404, one with an email held by another user
\* with 409, one with a password against the policy with 400.
C31_UpdateAllOrNothing ==
    [][ last'.op = "update"
          => LET username == last'.args[1]
                 email == last'.args[2]
                 password == last'.args[3]
                 held == \E u \in DOMAIN users \ {username} : users[u].email = email
             IN  /\ last'.status # 200 => users' = users
                 /\ username \notin DOMAIN users => last'.status = 404
                 /\ (username \in DOMAIN users /\ email # NoEmail /\ held)
                       => last'.status = 409
                 /\ (username \in DOMAIN users /\ ~(email # NoEmail /\ held)
                        /\ password # NoPassword /\ validate_password(password) # <<>>)
                       => last'.status = 400
                 /\ last'.status \in {200, 400, 404, 409} ]_vars

\* An update of alice with a new email, an acceptable new password and a
\* date of birth in the future was answered 400; her row still has the
\* email and the password she registered with.
C31_Witness ==
    /\ last.op = "update"
    /\ last.status = 400
    /\ last.args = <<"alice", "b@x.io", PwOther, DobTomorrow>>
    /\ users["alice"].email = "a@x.io"
    /\ users["alice"].password_hashed.digest[2] = PwSecure
    /\ users["alice"].date_of_birth = DobAdult

\* C32: GET /users/{username} never discloses another user's record.  A
\* request for which the Session Authenticator yields caller c, whatever the
\* path value, is answered 200 with the user info of c; no response of the
\* route carries the info of a user other than the caller.
C32_GetUserAnswersCaller ==
    /\ (last.op = "get_user" /\ last.body.kind = "user_info")
          => (last.identity.kind = "user"
              /\ last.body.username = last.identity.username)
    /\ (last.op = "get_user" /\ last.identity.kind = "user")
          => (last.status = 200
              /\ last.body = UserInfoSchema(to_entity(last.identity.username)))

\* C33: delete_user removes exactly the named record.  A call for a
\* username in the directory succeeds, after it neither the username nor
\* the email of that record resolves to a user, and every other record is as
\* before; a call for a username not in the directory ends with 404 and
\* changes nothing, so deleting the same username again ends with 404.
C33_DeleteExactlyNamed ==
    /\ [][ \A username \in Usernames, email \in Emails :
              (last'.op = "delete" /\ last'.args[1] = username)
                => IF username \in DOMAIN users
                   THEN /\ last'.status = 204
                        /\ DOMAIN users' = DOMAIN users \ {username}
                        /\ \A u \in DOMAIN users' : users'[u] = users[u]
                        /\ get_by_username(Str(username))' = NoneVal
                        /\ users[username].email = email
                              => get_by_email(email)' = NoneVal
                   ELSE /\ last'.status = 404
                        /\ users' = users ]_vars
    /\ []((last.op = "delete" /\ last.status = 204)
            => delete_user(Str(last.args[1])).status = 404)

\* With alice and bob registered, alice was deleted and bob's record stays.
C33_Witness ==
    /\ last.op = "delete"
    /\ last.status = 204
    /\ last.args = <<"alice">>
    /\ DOMAIN users = {"bob"}
    /\ users["bob"].email = "b@x.io"

\* C34: concurrent profile updates do not lose writes.  When two
\* update_user calls for the same user have both succeeded, one changing
\* only the email and the other only the password, and both read the same
\* record before either wrote, the record holds the new email and the new
\* password.
C34_NoLostUpdate ==
    \A p, q \in Procs :
        (/\ p # q
         /\ calls[p].op = "update" /\ calls[p].pc = "done" /\ calls[p].status = 200
         /\ calls[q].op = "update" /\ calls[q].pc = "done" /\ calls[q].status = 200
         /\ calls[p].username = calls[q].username
         /\ calls[p].email # NoEmail /\ calls[p].password = NoPassword
         /\ calls[q].email = NoEmail /\ calls[q].password # NoPassword
         /\ calls[p].read = calls[q].read
         /\ calls[p].read.email # calls[p].email
         /\ ~verify_password(calls[q].password, calls[q].read.password_hashed)
         /\ calls[p].username \in DOMAIN users)
           => /\ users[calls[p].username].email = calls[p].email
              /\ verify_password(calls[q].password,
                                 users[calls[q].username].password_hashed)

\* C35: an update racing with a deletion yields not-found.  An update_user
\* call that read its user and then found the row gone in repository.update
\* ends with 404, never with 500, and the deleted user is not in the
\* directory afterwards.
C35_UpdateAfterDeleteNotFound ==
    \A p \in Procs :
        (/\ calls[p].op = "update" /\ calls[p].pc = "done"
         /\ calls[p].read # NoneVal
         /\ calls[p].at \in {"select", "commit", "refresh"}
         /\ calls[p].username \notin DOMAIN users)
           => calls[p].status = 404

\* C36: tokens are bound to the account they were minted for.  When a
\* username that is not in the directory is registered, every token minted
\* so far with that username as its subject belongs to an account deleted
\* before: Refresh rejects it and the Session Authenticator yields anonymous
\* for it once the new account exists.
C36_TokensBoundToAccount ==
    [][ \A u \in Usernames :
          (u \notin DOMAIN users /\ u \in DOMAIN users')
             => \A t \in {m \in minted : m.sub = u} :
                   /\ ~refresh_token(t)'.ok
                   /\ get_current_user(Request(t, NoHeader))'.kind = "none" ]_vars

\* A successful update_user call that set a new password has just ended.
PasswordChanged ==
    /\ last.op = "update"
    /\ last.status = 200
    /\ last.args[3] # NoPassword

\* C37: a password change does not end existing sessions.  The step of a
\* successful password change alters the verdict on no minted token, and
\* after it every token minted for the user before is still accepted until
\* its own expiry: Refresh accepts each refresh token and the Session
\* Authenticator yields the user for each access token, at every instant
\* before the token's exp.
C37_PasswordChangeKeepsSessions ==
    /\ [][ (last'.op = "update" /\ last'.status = 200)
             => \A t \in minted :
                   /\ refresh_token(t)'.ok = refresh_token(t).ok
                   /\ get_current_user(Request(t, NoHeader))'.kind
                         = get_current_user(Request(t, NoHeader)).kind ]_vars
    /\ [](PasswordChanged
            => \A t \in {m \in minted : m.sub = last.args[1] /\ now < m.exp} :
                  /\ t.type = "refresh" => refresh_token(t).ok
                  /\ t.type = "access"
                        => get_current_user(Request(t, NoHeader)).kind = "user")

\* C38: the adult-only policy is an invariant of the directory.  After any
\* sequence of register_user and update_user calls every record with a date
\* of birth has an age of at least 18 and a date of birth not after today.
C38_AdultOnlyDirectory ==
    \A u \in DOMAIN users :
        users[u].date_of_birth # NoDate
           => /\ age(users[u].date_of_birth) >= 18
              /\ ~DateLess(Today, users[u].date_of_birth)

====
